---------------------------- MODULE Spec2Model ----------------------------
(***************************************************************************)
(* A model of the BDD test harness of java-app-typescript-cucumber:        *)
(*   - BaseBuilder.executeWithRetry / shouldRetry / handleError            *)
(*   - ApiGateway's compatibility adapter (the *Compat methods)            *)
(*   - TestHelperBuilder.waitForCondition (the condition poller)           *)
(*   - TestHelperBuilder.cleanupTestUsers (the fan-out of deletes)         *)
(*   - CustomWorld's tracker, the Before/After hooks and the teardown      *)
(*   - TestHelperBuilder.waitForHealthy and the BeforeAll hook             *)
(*   - the legacy ApiClient                                                *)
(* and of the service under test: UserController, UserService and          *)
(* ProfileValidationService, with requests handled one at a time and with  *)
(* two requests handled at the same time.                                  *)
(* The harness runs on one JavaScript thread: an action of the model is    *)
(* one run-to-completion step between two suspension points (await).       *)
(***************************************************************************)
EXTENDS Integers, Sequences, FiniteSets, TLC

VARIABLES
    retries,      \* BaseBuilder.retries    (this.retries)
    retryDelay,   \* BaseBuilder.retryDelay (this.retryDelay)
    op,           \* the top-level operation in flight: "idle", "exec", "cleanup", "poll", ...
    tasks,        \* the executeWithRetry invocations in flight, by task id
    ret,          \* what the last finished operation gave its caller
    results,      \* cleanupTestUsers: the local object {deleted, failed}
    now,          \* the clock read by Date.now()
    poll,         \* waitForCondition: its locals and its position
    createdUsers, \* CustomWorld.createdUsers (the per-scenario tracker)
    world,        \* one scenario: the hooks' position, the service's users, the deletes issued
    startConfig,  \* this.retries and this.retryDelay as they were when the invocations in flight started
    health,       \* waitForHealthy and the BeforeAll hook that awaits it
    db,           \* the Java service: UserRepository and the answer to the last request
    race          \* the Java service: the requests its threads are handling at the same time

vars == <<retries, retryDelay, op, tasks, ret, results, now, poll, createdUsers,
          world, startConfig, health, db, race>>

-----------------------------------------------------------------------------
(* Bounds of the model *)

MaxRetries == 2

MaxUsers == 2

MaxTimeout == 3

MaxInterval == 2

MaxCallTime == 2

MaxLate == 1

MaxStart == 1

-----------------------------------------------------------------------------
(* HTTP responses, errors and envelopes *)

\* A header map is a set of key/value entries; a value is a string ("json"),
\* a number (written "N0") or null ("NULL").  The map itself may be undefined.
HeadersOf(m) == [defined |-> TRUE, map |-> m]

UndefinedHeaders == [defined |-> FALSE, map |-> {}]

EmptyHeaders == HeadersOf({})

JsonHeaders == HeadersOf({[k |-> "content-type", v |-> "json"]})

MixedHeaders == HeadersOf({[k |-> "content-length", v |-> "N0"], [k |-> "x-trace", v |-> "NULL"]})

\* The error label the service puts in the body of an error response.
ServerLabel(s) ==
    CASE s = 400 -> "Validation Failed"
      [] s = 404 -> "Not Found"
      [] s = 409 -> "Conflict"
      [] s >= 500 -> "Internal Server Error"
      [] OTHER -> ""

\* The body the service sends with status s (for an error status: the error payload).
ServerBody(s) ==
    [synth |-> FALSE, status |-> s, error |-> ServerLabel(s), message |-> "from server", path |-> "/api/users"]

NoData == [synth |-> FALSE, status |-> -1, error |-> "", message |-> "", path |-> ""]

Response(s, h) == [status |-> s, data |-> ServerBody(s), headers |-> h]

NoResponse == [status |-> -1, data |-> NoData, headers |-> UndefinedHeaders]

\* An error thrown by the HTTP client: error.response, error.request,
\* error.message and error.config?.url ("" stands for a missing one).
ErrorOf(hasResp, resp, req, msg, url) ==
    [defined |-> TRUE, hasResponse |-> hasResp, response |-> resp, request |-> req, message |-> msg, url |-> url]

\* The value of `lastError` before any failure was caught.
Undefined == [defined |-> FALSE, hasResponse |-> FALSE, response |-> NoResponse, request |-> FALSE, message |-> "", url |-> ""]

\* The outcome of one call of the HTTP client: resolved with a response, or
\* rejected with an error.
Resolved(resp) == [ok |-> TRUE, response |-> resp, error |-> Undefined]

Rejected(err) == [ok |-> FALSE, response |-> NoResponse, error |-> err]

Ok200 == Resolved(Response(200, JsonHeaders))

Ok204 == Resolved(Response(204, MixedHeaders))

Err404 == Rejected(ErrorOf(TRUE, Response(404, JsonHeaders), TRUE, "Request failed with status code 404", "/api/users"))

Err500 == Rejected(ErrorOf(TRUE, Response(500, UndefinedHeaders), TRUE, "Request failed with status code 500", "/api/users"))

ErrNoResponse == Rejected(ErrorOf(FALSE, NoResponse, TRUE, "timeout exceeded", "/api/users"))

ErrSetup == Rejected(ErrorOf(FALSE, NoResponse, FALSE, "Invalid URL", ""))

ErrSetupNoMessage == Rejected(ErrorOf(FALSE, NoResponse, FALSE, "", "/api/users"))

\* What one HTTP call can end with.
Outcomes == {Ok200, Ok204, Err404, Err500, ErrNoResponse, ErrSetup, ErrSetupNoMessage}

\* What a DELETE /api/users/{id} can end with.
DeleteOutcomes == {Ok204, Err404, Err500, ErrNoResponse}

\* The envelope {status, data, headers}.
Envelope(s, d, h) == [status |-> s, data |-> d, headers |-> h]

NoEnvelope == Envelope(-1, NoData, UndefinedHeaders)

\* The synthesized error payload (its timestamp is left out).
ErrorPayload(label, msg, path) ==
    [synth |-> TRUE, status |-> 0, error |-> label, message |-> msg, path |-> path]

\* What a function gives back: an envelope, or a thrown error.
Returns(env) == [thrown |-> FALSE, env |-> env]

Throws == [thrown |-> TRUE, env |-> NoEnvelope]

\* a || b on strings
OrElse(a, b) == IF a # "" THEN a ELSE b

-----------------------------------------------------------------------------
(* BaseBuilder: the request executor *)

DefaultRetries == 0

DefaultRetryDelay == 1000

TestingRetryDelay == 2000

\* The retry counts and delays a builder can be configured with (the
\* constructor and withRetry take any number).
RetryCounts == -1 .. MaxRetries

RetryDelays == {DefaultRetryDelay, TestingRetryDelay}

\* A shouldRetry that also retries client errors.
shouldRetryAnyFailure(error) == error.defined

\* shouldRetry: retry on network errors or 5xx status codes.
shouldRetry(error) ==
    \/ ~error.hasResponse
    \/ (error.response.status >= 500 /\ error.response.status < 600)

\* A handleError that reports a missing response as 503 Service Unavailable.
handleErrorNoResponseAs503(error) ==
    IF ~error.defined THEN Throws
    ELSE IF error.hasResponse
    THEN Returns(Envelope(error.response.status, error.response.data, error.response.headers))
    ELSE Returns(Envelope(503, ErrorPayload("Network Error", "No response received from server", OrElse(error.url, "unknown")), EmptyHeaders))

\* handleError: reading error.response of an undefined error throws a TypeError.
handleError(error) ==
    IF ~error.defined THEN Throws
    ELSE IF error.hasResponse
    THEN Returns(Envelope(error.response.status, error.response.data, error.response.headers))
    ELSE IF error.request
    THEN Returns(Envelope(0, ErrorPayload("Network Error", "No response received from server", OrElse(error.url, "unknown")), EmptyHeaders))
    ELSE Returns(Envelope(0, ErrorPayload("Request Error", OrElse(error.message, "Unknown error occurred"), OrElse(error.url, "unknown")), EmptyHeaders))

\* How the claims classify the outcome of one attempt (not the code's test).
OutcomeClass(o) ==
    IF o.ok THEN "success"
    ELSE IF ~o.error.hasResponse \/ o.error.response.status \in 500 .. 599 THEN "retryable"
    ELSE "nonretryable"

\* One invocation of executeWithRetry: its locals (attempt, lastError), its
\* position, and a record of what it did (calls of requestFn, sleeps, the
\* class of every outcome, the last outcome).
NewTask ==
    [pc |-> "start", attempt |-> 0, lastError |-> Undefined, out |-> Throws,
     calls |-> 0, delays |-> 0, waited |-> 0, hist |-> <<>>, last |-> Rejected(Undefined)]

\* After the loop: return this.handleError(lastError).
executeWithRetryEnd(t) ==
    LET h == handleError(t.lastError)
    IN  [t EXCEPT !.pc = IF h.thrown THEN "rejected" ELSE "resolved", !.out = h]

\* The loop test `attempt <= this.retries`, then `await requestFn()`.
executeWithRetryLoop(t, r) ==
    IF t.attempt <= r
    THEN [t EXCEPT !.pc = "await", !.calls = @ + 1]
    ELSE executeWithRetryEnd(t)

\* The call of executeWithRetry up to its first suspension.
executeWithRetry(r) == executeWithRetryLoop(NewTask, r)

\* `await requestFn()` settles with outcome o: the try block returns the
\* envelope, or the catch block decides between sleep-and-continue and break.
executeWithRetrySettle(t, o, r, d) ==
    LET seen == [t EXCEPT !.hist = Append(@, OutcomeClass(o)), !.last = o]
    IN  IF o.ok
        THEN [seen EXCEPT !.pc = "resolved",
                          !.out = Returns(Envelope(o.response.status, o.response.data, o.response.headers))]
        ELSE LET caught == [seen EXCEPT !.lastError = o.error]
             IN  IF caught.attempt < r /\ shouldRetry(o.error)
                 THEN [caught EXCEPT !.pc = "sleep", !.delays = @ + 1, !.waited = @ + d]
                 ELSE executeWithRetryEnd(caught)

\* `await this.sleep(this.retryDelay)` is over: continue, attempt++, loop test.
executeWithRetryWake(t, r) ==
    executeWithRetryLoop([t EXCEPT !.attempt = @ + 1], r)

Settled(t) == t.pc \in {"resolved", "rejected"}

-----------------------------------------------------------------------------
(* ApiGateway: the compatibility adapter *)

\* String(value) of a header value.
StringOf(v) == IF v = "N0" THEN "0" ELSE v

convertHeaders(axiosHeaders) ==
    LET entries == IF axiosHeaders.defined THEN axiosHeaders.map ELSE {}
    IN  HeadersOf({[k |-> e.k, v |-> StringOf(e.v)] : e \in {x \in entries : x.v # "NULL"}})

convertAxiosResponse(axiosResponse) ==
    Returns(Envelope(axiosResponse.status, axiosResponse.data, convertHeaders(axiosResponse.headers)))

\* A handleAxiosError that tests error.request before error.response.
handleAxiosErrorRequestFirst(error) ==
    IF ~error.defined THEN Throws
    ELSE IF error.request
    THEN Returns(Envelope(0, ErrorPayload("Network Error", "No response received from server", OrElse(error.url, "unknown")), EmptyHeaders))
    ELSE IF error.hasResponse
    THEN Returns(Envelope(error.response.status, error.response.data, convertHeaders(error.response.headers)))
    ELSE Returns(Envelope(0, ErrorPayload("Request Error", OrElse(error.message, "Unknown error occurred"), OrElse(error.url, "unknown")), EmptyHeaders))

\* A handleAxiosError that reports every request that was not sent with the
\* same message.
handleAxiosErrorDropsMessage(error) ==
    IF ~error.defined THEN Throws
    ELSE IF error.hasResponse
    THEN Returns(Envelope(error.response.status, error.response.data, convertHeaders(error.response.headers)))
    ELSE IF error.request
    THEN Returns(Envelope(0, ErrorPayload("Network Error", "No response received from server", OrElse(error.url, "unknown")), EmptyHeaders))
    ELSE Returns(Envelope(0, ErrorPayload("Request Error", "Unknown error occurred", OrElse(error.url, "unknown")), EmptyHeaders))

handleAxiosError(error) ==
    IF ~error.defined THEN Throws
    ELSE IF error.hasResponse
    THEN Returns(Envelope(error.response.status, error.response.data, convertHeaders(error.response.headers)))
    ELSE IF error.request
    THEN Returns(Envelope(0, ErrorPayload("Network Error", "No response received from server", OrElse(error.url, "unknown")), EmptyHeaders))
    ELSE Returns(Envelope(0, ErrorPayload("Request Error", OrElse(error.message, "Unknown error occurred"), OrElse(error.url, "unknown")), EmptyHeaders))

\* try { return convertAxiosResponse(await call) } catch (error) { return handleAxiosError(error) }
CompatAdapter(o) ==
    IF o.ok THEN convertAxiosResponse(o.response) ELSE handleAxiosError(o.error)

getAllUsersCompat(o) == CompatAdapter(o)

getUserByIdCompat(o) == CompatAdapter(o)

createUserCompat(o) == CompatAdapter(o)

updateUserCompat(o) == CompatAdapter(o)

deleteUserCompat(o) == CompatAdapter(o)

getHealthCompat(o) == CompatAdapter(o)

CompatMethods ==
    {"getAllUsersCompat", "getUserByIdCompat", "createUserCompat",
     "updateUserCompat", "deleteUserCompat", "getHealthCompat"}

CompatResult(m, o) ==
    CASE m = "getAllUsersCompat" -> getAllUsersCompat(o)
      [] m = "getUserByIdCompat" -> getUserByIdCompat(o)
      [] m = "createUserCompat" -> createUserCompat(o)
      [] m = "updateUserCompat" -> updateUserCompat(o)
      [] m = "deleteUserCompat" -> deleteUserCompat(o)
      [] m = "getHealthCompat" -> getHealthCompat(o)

-----------------------------------------------------------------------------
(* State shared by the specifications *)

\* What the caller of an operation got: nothing yet, a resolved promise or a
\* rejected one; for the executor and the adapter also the envelope and the
\* outcome of the last HTTP call behind it.
NoReturn == [kind |-> "none", src |-> "", env |-> NoEnvelope, last |-> Rejected(Undefined)]

ReturnOf(src, h, o) ==
    [kind |-> IF h.thrown THEN "rejected" ELSE "resolved", src |-> src, env |-> h.env, last |-> o]

NoResults == [deleted |-> <<>>, failed |-> <<>>]

NoPoll ==
    [pc |-> "idle", startTime |-> 0, timeout |-> 0, interval |-> 0, description |-> "",
     result |-> "", message |-> <<>>,
     calls |-> 0, sleeps |-> 0, busy |-> 0, firstTruthy |-> "", truthyAt |-> 0,
     thrown |-> 0, lastThrew |-> FALSE, endTime |-> 0]

TheTask == 0

\* No scenario is running: no World object exists.  `users` are the users the
\* service stores (with whether cleanupAllTestUsers' filter matches them and
\* whether a step of the running scenario created them); the other fields
\* record what the running scenario did.
NoWorld ==
    [pc |-> "none", caller |-> "", status |-> "UNKNOWN", hook |-> "none",
     users |-> {}, nextId |-> 1, currentUser |-> 0, pending |-> {},
     tracked |-> {}, created |-> {}, deletes |-> {}, issued |-> {}, runs |-> 0]

\* No invocation in flight whose starting configuration is remembered.
NoConfig == [of |-> <<>>, changed |-> FALSE]

\* waitForHealthy was not called yet.
NoHealth == [pc |-> "idle", isReady |-> "none", hook |-> "none"]

\* The answer of the service when no request was handled yet.
NoAnswer ==
    [op |-> "none", id |-> 0, name |-> "", email |-> "", bio |-> "", exception |-> "",
     message |-> <<>>, status |-> 0, error |-> "", dependency |-> "none",
     body |-> [id |-> 0, name |-> "", email |-> "", bio |-> ""]]

\* The service after start-up: an empty repository.
EmptyDb == [users |-> {}, nextId |-> 1, before |-> {}, last |-> NoAnswer]

\* The threads of the service that handle requests at the same time.
Handlers == {"thread-1", "thread-2"}

\* A thread that handles no request.
NoHandler ==
    [pc |-> "idle", method |-> "", id |-> 0, name |-> "", email |-> "", bio |-> "", own |-> "",
     exception |-> "", persisted |-> FALSE, clash |-> FALSE]

\* No request is being handled; whether the users table has a unique index
\* on email is not known before a save meets a duplicate.
NoRace == [schema |-> "unknown", slots |-> [h \in Handlers |-> NoHandler]]

\* The constructor: this.retries = builderConfig.retries || 0.
constructorRetries(configured) == IF configured # 0 THEN configured ELSE DefaultRetries

\* The state after construction of a builder with some retry count and no
\* retry delay configured.
Init ==
    /\ \E configured \in RetryCounts : retries = constructorRetries(configured)
    /\ retryDelay = DefaultRetryDelay
    /\ op = "idle"
    /\ tasks = <<>>
    /\ ret = NoReturn
    /\ results = NoResults
    /\ now = 0
    /\ poll = NoPoll
    /\ createdUsers = <<>>
    /\ world = NoWorld
    /\ startConfig = NoConfig
    /\ health = NoHealth
    /\ db = EmptyDb
    /\ race = NoRace

\* withRetry(retries, retryDelay), between two operations.
withRetry ==
    /\ op = "idle"
    /\ \E r \in RetryCounts, d \in RetryDelays :
          /\ retries' = r
          /\ retryDelay' = d
    /\ UNCHANGED <<op, tasks, ret, results, now, poll, createdUsers, world, startConfig, health, db, race>>

-----------------------------------------------------------------------------
(* SpecExec: one executeWithRetry invocation at a time, and the adapter *)

ExecCall ==
    /\ op = "idle"
    /\ op' = "exec"
    /\ tasks' = [i \in {TheTask} |-> executeWithRetry(retries)]
    /\ ret' = NoReturn
    /\ UNCHANGED <<retries, retryDelay, results, now, poll, createdUsers, world, startConfig, health, db, race>>

ExecRequestSettles ==
    /\ op = "exec"
    /\ tasks[TheTask].pc = "await"
    /\ \E o \in Outcomes :
          tasks' = [tasks EXCEPT ![TheTask] = executeWithRetrySettle(@, o, retries, retryDelay)]
    /\ UNCHANGED <<retries, retryDelay, op, ret, results, now, poll, createdUsers, world, startConfig, health, db, race>>

ExecSleepElapses ==
    /\ op = "exec"
    /\ tasks[TheTask].pc = "sleep"
    /\ tasks' = [tasks EXCEPT ![TheTask] = executeWithRetryWake(@, retries)]
    /\ UNCHANGED <<retries, retryDelay, op, ret, results, now, poll, createdUsers, world, startConfig, health, db, race>>

\* The promise of executeWithRetry settles and its caller resumes.
ExecReturn ==
    /\ op = "exec"
    /\ Settled(tasks[TheTask])
    /\ op' = "idle"
    /\ ret' = ReturnOf("exec", tasks[TheTask].out, tasks[TheTask].last)
    /\ UNCHANGED <<retries, retryDelay, tasks, results, now, poll, createdUsers, world, startConfig, health, db, race>>

\* One call of a compatibility method, from its call to the settling of its promise.
CompatCall ==
    /\ op = "idle"
    /\ \E m \in CompatMethods, o \in Outcomes :
          ret' = ReturnOf(m, CompatResult(m, o), o)
    /\ tasks' = <<>>
    /\ UNCHANGED <<retries, retryDelay, op, results, now, poll, createdUsers, world, startConfig, health, db, race>>

NextExec ==
    \/ withRetry
    \/ ExecCall
    \/ ExecRequestSettles
    \/ ExecSleepElapses
    \/ ExecReturn
    \/ CompatCall

SpecExec == Init /\ [][NextExec]_vars

-----------------------------------------------------------------------------
(* Claims about the request executor and the adapter (SpecExec) *)

\* An HTTP response was received for the call that ended as o.
ResponseReceived(o) == o.ok \/ o.error.hasResponse

\* C1: executeWithRetry calls the operation at most retries+1 times; every
\* outcome before the last one is a retryable failure (a success or a
\* non-retryable failure at any attempt ends the loop with no further call),
\* and when the first failure is non-retryable the operation was called
\* exactly once.
C1_AttemptsBounded ==
    op = "exec" =>
        LET t == tasks[TheTask]
        IN  /\ t.calls <= retries + 1
            /\ t.calls = Len(t.hist) + (IF t.pc = "await" THEN 1 ELSE 0)
            /\ \A k \in 1 .. Len(t.hist) :
                  t.hist[k] # "retryable" => (k = Len(t.hist) /\ Settled(t))
            /\ (Len(t.hist) >= 1 /\ t.hist[1] = "nonretryable") => (t.calls = 1 /\ Settled(t))

\* A 4xx answer on the second attempt ends the loop although one retry is left.
C1_Witness ==
    /\ op = "exec"
    /\ retries = 2
    /\ Settled(tasks[TheTask])
    /\ tasks[TheTask].hist = <<"retryable", "nonretryable">>
    /\ tasks[TheTask].calls = 2

\* C2: executeWithRetry never rejects: it resolves to the envelope of the
\* first successful response or, when no attempt succeeds, to the envelope
\* built from the last failure.
C2_NeverRejects ==
    (op = "exec" /\ Settled(tasks[TheTask])) =>
        LET t == tasks[TheTask]
        IN  /\ t.pc = "resolved"
            /\ t.last.ok =>
                  t.out.env = Envelope(t.last.response.status, t.last.response.data, t.last.response.headers)
            /\ ~t.last.ok =>
                  /\ t.lastError = t.last.error
                  /\ t.out.env.status = (IF t.last.error.hasResponse THEN t.last.error.response.status ELSE 0)

\* The same statement for the invocations that made at least one attempt.
C2_ResolvesOnceAttempted ==
    (op = "exec" /\ Settled(tasks[TheTask]) /\ tasks[TheTask].calls > 0) =>
        LET t == tasks[TheTask]
        IN  /\ t.pc = "resolved"
            /\ t.last.ok =>
                  t.out.env = Envelope(t.last.response.status, t.last.response.data, t.last.response.headers)
            /\ ~t.last.ok =>
                  /\ t.lastError = t.last.error
                  /\ t.out.env.status = (IF t.last.error.hasResponse THEN t.last.error.response.status ELSE 0)

\* C3: a compatibility method always resolves; a failure of the typed client
\* falls in exactly one bucket, tested in this order: a response exists
\* (its status and body are kept), else a request was made (status 0,
\* "Network Error"), else status 0, "Request Error".
C3_CompatAlwaysResolves ==
    ret.src \in CompatMethods =>
        /\ ret.kind = "resolved"
        /\ ret.last.ok =>
              (ret.env.status = ret.last.response.status /\ ret.env.data = ret.last.response.data)
        /\ ~ret.last.ok =>
              LET e == ret.last.error
              IN  IF e.hasResponse
                  THEN ret.env.status = e.response.status /\ ret.env.data = e.response.data
                  ELSE IF e.request
                  THEN ret.env.status = 0 /\ ret.env.data.error = "Network Error"
                  ELSE ret.env.status = 0 /\ ret.env.data.error = "Request Error"

\* A 404 error carries both a response and a request: the response wins.
C3_Witness ==
    /\ ret.src = "deleteUserCompat"
    /\ ret.last = Err404
    /\ ret.last.error.request
    /\ ret.kind = "resolved"
    /\ ret.env.status = 404

\* C4: in every envelope the executor or the adapter returns, status = 0
\* exactly when no HTTP response was received; then headers is empty and data
\* is the synthesized payload with status 0 and the label "Network Error" or
\* "Request Error"; otherwise the status is the response's.
C4_StatusZeroIffNoResponse ==
    (ret.kind = "resolved" /\ ret.src \in CompatMethods \cup {"exec"}) =>
        /\ (ret.env.status = 0) <=> ~ResponseReceived(ret.last)
        /\ ret.env.status = 0 =>
              /\ ret.env.headers = EmptyHeaders
              /\ ret.env.data.synth
              /\ ret.env.data.status = 0
              /\ ret.env.data.error \in {"Network Error", "Request Error"}
        /\ ResponseReceived(ret.last) =>
              ret.env.status = (IF ret.last.ok THEN ret.last.response.status
                                ELSE ret.last.error.response.status)

\* The executor gives up after a retry that got no response either.
C4_Witness ==
    /\ ret.kind = "resolved"
    /\ ret.src = "exec"
    /\ ret.env.status = 0
    /\ ret.env.data.error = "Network Error"
    /\ tasks[TheTask].calls = 2

-----------------------------------------------------------------------------
(* TestHelperBuilder.waitForCondition: the condition poller *)

\* What one call of the predicate ends with: a value ("" stands for a falsy
\* one: null, false, 0) or a thrown error.
CondOutcomes ==
    {[threw |-> FALSE, value |-> "v1"], [threw |-> FALSE, value |-> "v2"],
     [threw |-> FALSE, value |-> ""], [threw |-> TRUE, value |-> ""]}

Timeouts == -1 .. MaxTimeout

Intervals == 1 .. MaxInterval

Descriptions == {"condition", "application to be healthy"}

\* A loop test that gives up when the next sleep would pass the deadline.
waitForConditionLoopGivesUpEarly(p, t) ==
    IF (t - p.startTime) + p.interval < p.timeout
    THEN [p EXCEPT !.pc = "await", !.calls = @ + 1]
    ELSE [p EXCEPT !.pc = "timeout", !.message = <<p.description, p.timeout>>, !.endTime = t]

\* The loop test `Date.now() - startTime < timeout` at time t, then either
\* `await condition()` or the throw after the loop.
waitForConditionLoop(p, t) ==
    IF t - p.startTime < p.timeout
    THEN [p EXCEPT !.pc = "await", !.calls = @ + 1]
    ELSE [p EXCEPT !.pc = "timeout", !.message = <<p.description, p.timeout>>, !.endTime = t]

\* A poller that calls the predicate once before it looks at the time.
waitForConditionCallsFirst(timeout, interval, description, t) ==
    [NoPoll EXCEPT !.startTime = t, !.timeout = timeout, !.interval = interval,
                   !.description = description, !.pc = "await", !.calls = 1]

\* The call of waitForCondition at time t, up to its first suspension.
waitForCondition(timeout, interval, description, t) ==
    waitForConditionLoop(
        [NoPoll EXCEPT !.startTime = t, !.timeout = timeout, !.interval = interval,
                       !.description = description], t)

\* What waitForCondition records of the outcome o of one call of the
\* predicate, which took `took`.
Observed(p, o, took) ==
    LET truthy == ~o.threw /\ o.value # ""
    IN  [p EXCEPT !.busy = @ + took,
                  !.lastThrew = o.threw,
                  !.thrown = IF o.threw THEN @ + 1 ELSE @,
                  !.firstTruthy = IF @ = "" /\ truthy THEN o.value ELSE @,
                  !.truthyAt = IF @ = 0 /\ truthy THEN p.calls ELSE @]

\* A poller that returns whatever the predicate resolved to, falsy or not.
waitForConditionSettleReturnsAnyValue(p, o, took, t) ==
    IF ~o.threw
    THEN [Observed(p, o, took) EXCEPT !.pc = "returned", !.result = o.value, !.endTime = t]
    ELSE [Observed(p, o, took) EXCEPT !.pc = "sleep", !.sleeps = @ + 1]

\* A poller without the try/catch around the predicate.
waitForConditionSettleRethrows(p, o, took, t) ==
    IF o.threw
    THEN [Observed(p, o, took) EXCEPT !.pc = "rejected", !.endTime = t]
    ELSE IF o.value # ""
    THEN [Observed(p, o, took) EXCEPT !.pc = "returned", !.result = o.value, !.endTime = t]
    ELSE [Observed(p, o, took) EXCEPT !.pc = "sleep", !.sleeps = @ + 1]

\* A poller that tests the deadline when the predicate settles and drops a
\* value that came after it.
waitForConditionSettleChecksDeadline(p, o, took, t) ==
    IF t - p.startTime >= p.timeout
    THEN [Observed(p, o, took) EXCEPT !.pc = "timeout", !.message = <<p.description, p.timeout>>,
                                      !.endTime = t]
    ELSE IF ~o.threw /\ o.value # ""
    THEN [Observed(p, o, took) EXCEPT !.pc = "returned", !.result = o.value, !.endTime = t]
    ELSE [Observed(p, o, took) EXCEPT !.pc = "sleep", !.sleeps = @ + 1]

\* `await condition()` settles at time t with outcome o, after `took` time.
waitForConditionSettle(p, o, took, t) ==
    IF ~o.threw /\ o.value # ""
    THEN [Observed(p, o, took) EXCEPT !.pc = "returned", !.result = o.value, !.endTime = t]
    ELSE [Observed(p, o, took) EXCEPT !.pc = "sleep", !.sleeps = @ + 1]

\* `await this.sleep(interval)` is over at time t, `late` after it was due.
waitForConditionWake(p, t, late) ==
    waitForConditionLoop([p EXCEPT !.busy = @ + late], t)

\* A sleep whose timer is set without its delay: it fires on the next tick.
sleepWithoutDelay(ms, late) == 1 + late

\* setTimeout(resolve, ms) fires ms after the call, or later.
sleep(ms, late) == ms + late

PollCall ==
    /\ op = "idle"
    /\ now <= MaxStart
    /\ op' = "poll"
    /\ \E timeout \in Timeouts, interval \in Intervals, description \in Descriptions :
          poll' = waitForCondition(timeout, interval, description, now)
    /\ ret' = NoReturn
    /\ tasks' = <<>>
    /\ UNCHANGED <<retries, retryDelay, results, now, createdUsers, world, startConfig, health, db, race>>

PollConditionSettles ==
    /\ op = "poll"
    /\ poll.pc = "await"
    /\ \E o \in CondOutcomes, took \in 0 .. MaxCallTime :
          /\ now' = now + took
          /\ poll' = waitForConditionSettle(poll, o, took, now')
    /\ UNCHANGED <<retries, retryDelay, op, tasks, ret, results, createdUsers, world, startConfig, health, db, race>>

PollSleepElapses ==
    /\ op = "poll"
    /\ poll.pc = "sleep"
    /\ \E late \in 0 .. MaxLate :
          /\ now' = now + sleep(poll.interval, late)
          /\ poll' = waitForConditionWake(poll, now', late)
    /\ UNCHANGED <<retries, retryDelay, op, tasks, ret, results, createdUsers, world, startConfig, health, db, race>>

PollStopped == poll.pc \in {"returned", "timeout", "rejected"}

\* The promise of waitForCondition settles and its caller resumes.
PollReturn ==
    /\ op = "poll"
    /\ PollStopped
    /\ op' = "idle"
    /\ ret' = [NoReturn EXCEPT !.kind = IF poll.pc = "returned" THEN "resolved" ELSE "rejected",
                               !.src = "waitForCondition"]
    /\ UNCHANGED <<retries, retryDelay, tasks, results, now, poll, createdUsers, world, startConfig, health, db, race>>

\* Time passes between two polls.
Tick ==
    /\ op = "idle"
    /\ now < MaxStart
    /\ now' = now + 1
    /\ UNCHANGED <<retries, retryDelay, op, tasks, ret, results, poll, createdUsers, world, startConfig, health, db, race>>

NextPoll ==
    \/ PollCall
    \/ PollConditionSettles
    \/ PollSleepElapses
    \/ PollReturn
    \/ Tick

SpecPoll == Init /\ [][NextPoll]_vars

\* Every timer fires and every call of the predicate settles (the harness's
\* predicates are HTTP calls with a timeout).
LiveSpecPoll ==
    /\ SpecPoll
    /\ WF_vars(PollConditionSettles)
    /\ WF_vars(PollSleepElapses)
    /\ WF_vars(PollReturn)

-----------------------------------------------------------------------------
(* Claims about the condition poller (SpecPoll, LiveSpecPoll) *)

Elapsed == poll.endTime - poll.startTime

PollActive == poll.pc \in {"await", "sleep"}

\* The poller returns the first truthy value and has not called the predicate
\* since; a timeout failure means no value was truthy and names the
\* description and the timeout.
PollResultIsFirstTruthy ==
    /\ poll.pc # "rejected"
    /\ poll.pc = "returned" =>
          (poll.result # "" /\ poll.result = poll.firstTruthy)
    /\ poll.firstTruthy # "" =>
          (poll.pc = "returned" /\ poll.calls = poll.truthyAt)
    /\ poll.pc = "timeout" =>
          (poll.firstTruthy = "" /\ poll.message = <<poll.description, poll.timeout>>)

\* C5: waitForCondition returns the first truthy value of the predicate and
\* never calls the predicate again; when no value is truthy the poller
\* eventually stops with the timeout failure that names the description and
\* the timeout.
C5_FirstTruthyOrTimeout ==
    /\ []PollResultIsFirstTruthy
    /\ (PollActive ~> PollStopped)

\* Two polls, none truthy, then the timeout failure.
C5_Witness ==
    /\ poll.pc = "timeout"
    /\ poll.calls = 2
    /\ poll.message = <<"application to be healthy", 3>>

\* One step of the poller in which a call of the predicate settles.
PredicateSettles == poll.pc = "await" /\ poll' # poll

\* C6: a call of the predicate that throws is handled like one that returned
\* a falsy value: nothing is propagated, the poller sleeps one interval and
\* polls again, and a truthy value of a later call is still returned.
C6_ThrowCountsAsFalsy ==
    /\ [](poll.pc # "rejected")
    /\ [][PredicateSettles =>
            /\ (poll'.thrown > poll.thrown \/ poll'.firstTruthy = "") =>
                  /\ poll'.pc = "sleep"
                  /\ poll'.sleeps = poll.sleeps + 1
                  /\ poll'.result = poll.result
                  /\ poll'.calls = poll.calls
            /\ (poll'.thrown = poll.thrown /\ poll'.firstTruthy # "") =>
                  /\ poll'.pc = "returned"
                  /\ poll'.result = poll'.firstTruthy]_vars

\* A truthy value returned after an earlier call threw.
C6_Witness ==
    /\ poll.pc = "returned"
    /\ poll.thrown >= 1
    /\ poll.sleeps >= 1
    /\ poll.result = "v2"

\* C7: the timeout failure is signalled only when at least `timeout` has
\* elapsed since the poller started.
C7_TimeoutNotEarly ==
    poll.pc = "timeout" => Elapsed >= poll.timeout

\* The failure comes later than the deadline, after two polls.
C7_Witness ==
    /\ poll.pc = "timeout"
    /\ poll.timeout = 3
    /\ poll.calls = 2
    /\ Elapsed > poll.timeout

\* C8 as stated: a value that is truthy on the N-th call is returned at or
\* before N * interval elapsed.
C8_ResolvesWithinNIntervals ==
    poll.pc = "returned" => Elapsed <= poll.calls * poll.interval

\* C8, amended: a value that is truthy on the N-th call is returned after
\* N - 1 sleeps, at (N - 1) * interval plus the time spent in the N calls of
\* the predicate and the lateness of the timers.
C8_ResolvesAfterSleepsAndCalls ==
    poll.pc = "returned" =>
        /\ poll.calls = poll.truthyAt
        /\ poll.sleeps = poll.calls - 1
        /\ Elapsed = (poll.calls - 1) * poll.interval + poll.busy
        /\ Elapsed <= poll.calls * poll.interval + poll.busy

\* The second call is truthy, but the calls took longer than two intervals.
C8_Witness ==
    /\ poll.pc = "returned"
    /\ poll.calls = 2
    /\ Elapsed > poll.calls * poll.interval

-----------------------------------------------------------------------------
(* TestHelperBuilder.cleanupTestUsers and CustomWorld's tracker *)

UserIds == 1 .. MaxUsers

RECURSIVE Ascending(_)
\* The ids of a set, as a list in ascending order.
Ascending(S) ==
    IF S = {} THEN <<>>
    ELSE LET m == CHOOSE x \in S : \A y \in S : x <= y
         IN  <<m>> \o Ascending(S \ {m})

Range(q) == {q[i] : i \in 1 .. Len(q)}

\* A callback that records a failure only in its catch block.
cleanupCallbackDropsOtherStatus(res, id, t) ==
    IF t.pc = "resolved"
    THEN IF t.out.env.status = 204
         THEN [res EXCEPT !.deleted = Append(@, id)]
         ELSE res
    ELSE [res EXCEPT !.failed = Append(@, id)]

\* The rest of the map callback once `await this.executeWithRetry(...)` has
\* settled as t: push the id to deleted (status 204) or to failed (any other
\* status, or the catch block).
cleanupCallback(res, id, t) ==
    IF t.pc = "resolved"
    THEN IF t.out.env.status = 204
         THEN [res EXCEPT !.deleted = Append(@, id)]
         ELSE [res EXCEPT !.failed = Append(@, id)]
    ELSE [res EXCEPT !.failed = Append(@, id)]

\* A cleanup that starts the delete of the first id only (the others would
\* wait for their turn).
cleanupTestUsersOneAtATime(userIds, r) ==
    [id \in Range(userIds) |-> IF id = Head(userIds) THEN executeWithRetry(r) ELSE NewTask]

\* userIds.map(async (id) => ...): every callback runs up to its first
\* suspension, which is inside executeWithRetry.
cleanupTestUsers(userIds, r) ==
    [id \in Range(userIds) |-> executeWithRetry(r)]

RECURSIVE RunCallbacks(_, _, _)
\* The callbacks whose executeWithRetry settled without suspending resume in
\* the order of the map.
RunCallbacks(res, userIds, tk) ==
    IF userIds = <<>> THEN res
    ELSE LET id == Head(userIds)
         IN  RunCallbacks(IF Settled(tk[id]) THEN cleanupCallback(res, id, tk[id]) ELSE res,
                          Tail(userIds), tk)

\* A tracked user: its id and _testMetadata.shouldCleanup.
Tracked(id) == [id |-> id, shouldCleanup |-> TRUE]

RECURSIVE cleanupIds(_)
\* createdUsers.filter(user => user.id && user._testMetadata?.shouldCleanup).map(user => user.id)
cleanupIds(users) ==
    IF users = <<>> THEN <<>>
    ELSE LET u == Head(users)
         IN  (IF u.id # 0 /\ u.shouldCleanup THEN <<u.id>> ELSE <<>>) \o cleanupIds(Tail(users))

\* addCreatedUser for a user the service has just created (the service
\* assigns increasing ids).
addCreatedUser ==
    /\ op = "idle"
    /\ \E id \in UserIds :
          /\ \A i \in 1 .. Len(createdUsers) : createdUsers[i].id < id
          /\ createdUsers' = Append(createdUsers, Tracked(id))
    /\ tasks' = <<>>
    /\ results' = NoResults
    /\ ret' = NoReturn
    /\ UNCHANGED <<retries, retryDelay, op, now, poll, world, startConfig, health, db, race>>

\* A direct call of cleanupTestUsers(userIds).
CleanupCall ==
    /\ op = "idle"
    /\ op' = "cleanup"
    /\ \E S \in SUBSET UserIds :
          /\ tasks' = cleanupTestUsers(Ascending(S), retries)
          /\ results' = RunCallbacks(NoResults, Ascending(S), tasks')
    /\ ret' = NoReturn
    /\ UNCHANGED <<retries, retryDelay, now, poll, createdUsers, world, startConfig, health, db, race>>

\* cleanupCreatedUsers up to its first suspension (or to its end).
WorldCleanupCall ==
    /\ op = "idle"
    /\ LET userIds == cleanupIds(createdUsers)
       IN  IF Len(createdUsers) = 0
           THEN /\ ret' = [NoReturn EXCEPT !.kind = "resolved", !.src = "cleanupCreatedUsers"]
                /\ tasks' = <<>>
                /\ results' = NoResults
                /\ UNCHANGED <<op, createdUsers, race>>
           ELSE IF Len(userIds) > 0
           THEN /\ op' = "worldCleanup"
                /\ tasks' = cleanupTestUsers(userIds, retries)
                /\ results' = RunCallbacks(NoResults, userIds, tasks')
                /\ ret' = NoReturn
                /\ UNCHANGED createdUsers
           ELSE /\ createdUsers' = <<>>
                /\ ret' = [NoReturn EXCEPT !.kind = "resolved", !.src = "cleanupCreatedUsers"]
                /\ tasks' = <<>>
                /\ results' = NoResults
                /\ UNCHANGED op
    /\ UNCHANGED <<retries, retryDelay, now, poll, world, startConfig, health, db, race>>

InCleanup == op \in {"cleanup", "worldCleanup"}

\* The delete request of one id settles.
CleanupRequestSettles ==
    /\ InCleanup
    /\ \E id \in DOMAIN tasks, o \in DeleteOutcomes :
          /\ tasks[id].pc = "await"
          /\ LET t == executeWithRetrySettle(tasks[id], o, retries, retryDelay)
             IN  /\ tasks' = [tasks EXCEPT ![id] = t]
                 /\ results' = IF Settled(t) THEN cleanupCallback(results, id, t) ELSE results
    /\ UNCHANGED <<retries, retryDelay, op, ret, now, poll, createdUsers, world, startConfig, health, db, race>>

\* The retry delay of one id's executor is over.
CleanupSleepElapses ==
    /\ InCleanup
    /\ \E id \in DOMAIN tasks :
          /\ tasks[id].pc = "sleep"
          /\ LET t == executeWithRetryWake(tasks[id], retries)
             IN  /\ tasks' = [tasks EXCEPT ![id] = t]
                 /\ results' = IF Settled(t) THEN cleanupCallback(results, id, t) ELSE results
    /\ UNCHANGED <<retries, retryDelay, op, ret, now, poll, createdUsers, world, startConfig, health, db, race>>

AllSettled == \A id \in DOMAIN tasks : Settled(tasks[id])

\* await Promise.allSettled(promises); return results.
CleanupReturn ==
    /\ op = "cleanup"
    /\ AllSettled
    /\ op' = "idle"
    /\ ret' = [NoReturn EXCEPT !.kind = "resolved", !.src = "cleanupTestUsers"]
    /\ UNCHANGED <<retries, retryDelay, tasks, results, now, poll, createdUsers, world, startConfig, health, db, race>>

\* cleanupCreatedUsers resumes after cleanupTestUsers: this.createdUsers = [].
WorldCleanupReturn ==
    /\ op = "worldCleanup"
    /\ AllSettled
    /\ op' = "idle"
    /\ createdUsers' = <<>>
    /\ ret' = [NoReturn EXCEPT !.kind = "resolved", !.src = "cleanupCreatedUsers"]
    /\ UNCHANGED <<retries, retryDelay, tasks, results, now, poll, world, startConfig, health, db, race>>

NextCleanup ==
    \/ addCreatedUser
    \/ CleanupCall
    \/ WorldCleanupCall
    \/ CleanupRequestSettles
    \/ CleanupSleepElapses
    \/ CleanupReturn
    \/ WorldCleanupReturn

SpecCleanup == Init /\ [][NextCleanup]_vars

-----------------------------------------------------------------------------
(* Claims about cleanupTestUsers (SpecCleanup) *)

\* The number of times id occurs in the list q.
Count(q, id) == Cardinality({i \in 1 .. Len(q) : q[i] = id})

\* The last delete request of t's executor was answered 204.
DeleteAnswered204(t) == t.calls > 0 /\ t.last.ok /\ t.last.response.status = 204

CleanupReturned == ret.src \in {"cleanupTestUsers", "cleanupCreatedUsers"}

C10_FanOut ==
    /\ InCleanup =>
          \A id \in DOMAIN tasks :
              /\ tasks[id].pc # "start"
              /\ retries >= 0 => tasks[id].calls >= 1
    /\ (InCleanup \/ CleanupReturned) =>
          \A id \in DOMAIN tasks :
              LET t == tasks[id]
              IN  /\ Settled(t) =>
                        \/ t.calls = 0 /\ retries < 0
                        \/ t.calls = Len(t.hist) /\ t.hist[Len(t.hist)] # "retryable"
                        \/ t.calls = Len(t.hist) /\ t.calls = retries + 1
                  /\ Settled(t) <=> (Count(results.deleted, id) + Count(results.failed, id) = 1)
    /\ CleanupReturned =>
          /\ AllSettled
          /\ Range(results.deleted) = {id \in DOMAIN tasks : DeleteAnswered204(tasks[id])}
          /\ Range(results.failed) = {id \in DOMAIN tasks : ~DeleteAnswered204(tasks[id])}

\* The delete of user 1 fails at once with 404; the delete of user 2 goes on,
\* is retried and succeeds.
C10_Witness ==
    /\ ret.src = "cleanupTestUsers"
    /\ results.failed = <<1>>
    /\ results.deleted = <<2>>
    /\ tasks[1].last = Err404
    /\ tasks[1].calls = 1
    /\ tasks[2].calls = 2

-----------------------------------------------------------------------------
(* One scenario: the World object, the hooks, the creating steps and the   *)
(* teardown.  Behind a request stands the executor of SpecExec; here a     *)
(* request is one step that ends with the executor's final outcome.        *)

\* The statuses of the envelope of a create request (0: no response came).
CreateStatuses == {201, 400, 409, 0}

\* An executor that has no attempt left, settled by the outcome o of its call.
FinalTask(o) ==
    executeWithRetrySettle(executeWithRetry(DefaultRetries), o, DefaultRetries, DefaultRetryDelay)

\* UserService.deleteUser behind DELETE /api/users/{id}: 204 for a stored
\* user, 404 for an unknown one; or the request fails on the way.
DeleteAnswers(users, id) ==
    IF \E u \in users : u.id = id
    THEN {Ok204, Err500, ErrNoResponse}
    ELSE {Err404, Err500, ErrNoResponse}

AfterDelete(users, id, o) == IF o = Ok204 THEN {u \in users : u.id # id} ELSE users

\* POST /api/users answered with status s: 201 stores a user under the next id.
AfterCreate(w, s, matches) ==
    IF s = 201
    THEN [w EXCEPT !.users = @ \cup {[id |-> w.nextId, matches |-> matches, mine |-> TRUE]},
                   !.created = @ \cup {w.nextId},
                   !.nextId = @ + 1]
    ELSE w

\* The statuses the service can answer a create with while ids are left.
CreateAnswers(w) == IF w.nextId <= MaxUsers THEN CreateStatuses ELSE CreateStatuses \ {201}

\* new CustomWorld(options), once per scenario: this.createdUsers = [].  The
\* service keeps the users earlier scenarios left behind.
WorldConstructor ==
    /\ world.pc \in {"none", "done"}
    /\ createdUsers' = <<>>
    /\ world' = [NoWorld EXCEPT !.pc = "constructed",
                                !.users = {[u EXCEPT !.mine = FALSE] : u \in world.users},
                                !.nextId = world.nextId]
    /\ results' = NoResults
    /\ UNCHANGED <<retries, retryDelay, op, tasks, ret, now, poll, startConfig, health, db, race>>

\* The Before hook: setupTestScenario (which waits for the application to be
\* healthy and fails the scenario when it is not), then reset().
BeforeHook ==
    /\ world.pc = "constructed"
    /\ \E healthy \in BOOLEAN :
          world' = IF healthy
                   THEN [world EXCEPT !.pc = "steps"]
                   ELSE [world EXCEPT !.pc = "finished", !.status = "FAILED"]
    /\ UNCHANGED <<retries, retryDelay, op, tasks, ret, results, now, poll, createdUsers,
                   startConfig, health, db, race>>

\* Another client of the service (another scenario's run, an operator)
\* creates a user.
OtherClientCreates ==
    /\ world.pc \in {"constructed", "steps", "finished"}
    /\ world.nextId <= MaxUsers
    /\ \E matches \in BOOLEAN :
          world' = [world EXCEPT !.users = @ \cup {[id |-> world.nextId, matches |-> matches, mine |-> FALSE]},
                                 !.nextId = @ + 1]
    /\ UNCHANGED <<retries, retryDelay, op, tasks, ret, results, now, poll, createdUsers,
                   startConfig, health, db, race>>

\* A step 'I create a new user' that tracks the body of every answer.
StepCreateUserTracksEveryAnswer ==
    /\ world.pc = "steps"
    /\ \E s \in CreateAnswers(world), matches \in BOOLEAN :
          /\ world' = IF s = 201
                      THEN [AfterCreate(world, s, matches) EXCEPT !.tracked = @ \cup {world.nextId}, !.runs = 0]
                      ELSE world
          /\ createdUsers' = Append(createdUsers, Tracked(IF s = 201 THEN world.nextId ELSE 0))
    /\ UNCHANGED <<retries, retryDelay, op, tasks, ret, results, now, poll,
                   startConfig, health, db, race>>

\* When 'I create a new user': addCreatedUser if the status is 201.
StepCreateUser ==
    /\ world.pc = "steps"
    /\ \E s \in CreateAnswers(world), matches \in BOOLEAN :
          /\ world' = IF s = 201
                      THEN [AfterCreate(world, s, matches) EXCEPT !.tracked = @ \cup {world.nextId}, !.runs = 0]
                      ELSE world
          /\ createdUsers' = IF s = 201 THEN Append(createdUsers, Tracked(world.nextId)) ELSE createdUsers
    /\ UNCHANGED <<retries, retryDelay, op, tasks, ret, results, now, poll,
                   startConfig, health, db, race>>

\* Given 'a user exists with name ... and email ...': the step expects 201
\* (the scenario fails otherwise), then sets currentUser and addCreatedUser.
StepUserExists ==
    /\ world.pc = "steps"
    /\ \E s \in CreateAnswers(world), matches \in BOOLEAN :
          /\ world' = IF s = 201
                      THEN [AfterCreate(world, s, matches) EXCEPT !.tracked = @ \cup {world.nextId},
                                                                  !.currentUser = world.nextId,
                                                                  !.runs = 0]
                      ELSE [world EXCEPT !.pc = "finished", !.status = "FAILED"]
          /\ createdUsers' = IF s = 201 THEN Append(createdUsers, Tracked(world.nextId)) ELSE createdUsers
    /\ UNCHANGED <<retries, retryDelay, op, tasks, ret, results, now, poll,
                   startConfig, health, db, race>>

\* When 'I try to create another user with email ...': the response is kept,
\* nothing else.
StepTryCreateAnother ==
    /\ world.pc = "steps"
    /\ \E s \in CreateAnswers(world), matches \in BOOLEAN :
          world' = AfterCreate(world, s, matches)
    /\ UNCHANGED <<retries, retryDelay, op, tasks, ret, results, now, poll, createdUsers,
                   startConfig, health, db, race>>

\* Given 'some users exist in the system': two users named 'Test User n' are
\* created through apiClient.createUser; the responses are dropped.
StepSomeUsersExist ==
    /\ world.pc = "steps"
    /\ \E s1 \in CreateAnswers(world) :
          LET w1 == AfterCreate(world, s1, TRUE)
          IN  \E s2 \in CreateAnswers(w1) : world' = AfterCreate(w1, s2, TRUE)
    /\ UNCHANGED <<retries, retryDelay, op, tasks, ret, results, now, poll, createdUsers,
                   startConfig, health, db, race>>

\* When 'I delete the user': deleteUserCompat(currentUser.id); the tracker
\* keeps the user.
StepDeleteUser ==
    /\ world.pc = "steps"
    /\ world.currentUser # 0
    /\ \E o \in DeleteAnswers(world.users, world.currentUser) :
          world' = [world EXCEPT !.users = AfterDelete(@, world.currentUser, o)]
    /\ UNCHANGED <<retries, retryDelay, op, tasks, ret, results, now, poll, createdUsers,
                   startConfig, health, db, race>>

\* The last step is over: cucumber sets the result of the scenario.
ScenarioEnds ==
    /\ world.pc = "steps"
    /\ \E status \in {"PASSED", "FAILED"} :
          world' = [world EXCEPT !.pc = "finished", !.status = status]
    /\ UNCHANGED <<retries, retryDelay, op, tasks, ret, results, now, poll, createdUsers,
                   startConfig, health, db, race>>

\* An After hook that tears down only after a scenario that passed.
AfterHookRunsTeardownWhenPassed(status) == status # "FAILED"

\* The After hook: the `if (failed)` branch only logs; the try block with
\* teardownTestScenario follows it for every status.
AfterHookRunsTeardown(status) == TRUE

\* A cleanupCreatedUsers that asks for the delete of the tracked users the
\* service still stores, and of no other.
cleanupCreatedUsersCallSkipsDeleted(w, users, caller) ==
    LET ids == IF Len(users) = 0 THEN {}
               ELSE {id \in Range(cleanupIds(users)) : \E u \in w.users : u.id = id}
    IN  [w EXCEPT !.pc = "cleanup", !.caller = caller, !.pending = ids, !.issued = ids,
                  !.deletes = IF caller = "after" THEN @ \cup ids ELSE @,
                  !.runs = IF @ < 2 THEN @ + 1 ELSE @]

\* cleanupCreatedUsers up to its first suspension: the early return for an
\* empty tracker, else delete requests for the ids of the tracked users.
cleanupCreatedUsersCall(w, users, caller) ==
    LET ids == IF Len(users) = 0 THEN {} ELSE Range(cleanupIds(users))
    IN  [w EXCEPT !.pc = "cleanup", !.caller = caller, !.pending = ids, !.issued = ids,
                  !.deletes = IF caller = "after" THEN @ \cup ids ELSE @,
                  !.runs = IF @ < 2 THEN @ + 1 ELSE @]

\* A cleanup that keeps the users whose delete failed.
trackerAfterCleanupKeepsFailed(users, res) ==
    SelectSeq(users, LAMBDA u : u.id \in Range(res.failed))

\* The last statement of cleanupCreatedUsers: this.createdUsers = [].
trackerAfterCleanup(users, res) == <<>>

\* The After hook up to the first suspension of teardownTestScenario.
AfterHook ==
    /\ world.pc = "finished"
    /\ world' = IF AfterHookRunsTeardown(world.status)
                THEN cleanupCreatedUsersCall(world, createdUsers, "after")
                ELSE [world EXCEPT !.pc = "done", !.hook = "ok"]
    /\ results' = NoResults
    /\ UNCHANGED <<retries, retryDelay, op, tasks, ret, now, poll, createdUsers,
                   startConfig, health, db, race>>

\* A step (or any caller holding the World) calls cleanupCreatedUsers itself.
DirectCleanup ==
    /\ world.pc = "steps"
    /\ world' = cleanupCreatedUsersCall(world, createdUsers, "steps")
    /\ results' = NoResults
    /\ UNCHANGED <<retries, retryDelay, op, tasks, ret, now, poll, createdUsers,
                   startConfig, health, db, race>>

\* One delete request of cleanupTestUsers is over: the rest of its callback.
DeleteSettles ==
    /\ world.pc \in {"cleanup", "cleanupAll"}
    /\ \E id \in world.pending :
          \E o \in DeleteAnswers(world.users, id) :
              /\ world' = [world EXCEPT !.pending = @ \ {id}, !.users = AfterDelete(@, id, o)]
              /\ results' = cleanupCallback(results, id, FinalTask(o))
    /\ UNCHANGED <<retries, retryDelay, op, tasks, ret, now, poll, createdUsers,
                   startConfig, health, db, race>>

\* cleanupCreatedUsers resumes after cleanupTestUsers (or returns early) and
\* its caller goes on: teardownTestScenario calls teardownTest, whose
\* cleanupAllTestUsers awaits GET /api/users.
CleanupCreatedUsersReturn ==
    /\ world.pc = "cleanup"
    /\ world.pending = {}
    /\ createdUsers' = IF Len(createdUsers) = 0 THEN createdUsers
                       ELSE trackerAfterCleanup(createdUsers, results)
    /\ world' = [world EXCEPT !.pc = IF world.caller = "after" THEN "listing" ELSE "steps"]
    /\ UNCHANGED <<retries, retryDelay, op, tasks, ret, results, now, poll,
                   startConfig, health, db, race>>

\* What GET /api/users can end with.
ListOutcomes == {Ok200, Err500, ErrNoResponse}

\* cleanupAllTestUsers once GET /api/users ended with o: the ids of the users
\* whose name includes 'Test User' or whose email includes 'test'; none when
\* the status is not 200.
cleanupAllTestUsers(users, o) ==
    IF FinalTask(o).out.env.status # 200 THEN {}
    ELSE {u.id : u \in {x \in users : x.matches}}

\* GET /api/users of cleanupAllTestUsers is over: delete requests for the
\* users its filter matches.
ListSettles ==
    /\ world.pc = "listing"
    /\ \E o \in ListOutcomes :
          LET ids == cleanupAllTestUsers(world.users, o)
          IN  world' = [world EXCEPT !.pc = "cleanupAll", !.pending = ids,
                                     !.deletes = @ \cup ids]
    /\ results' = NoResults
    /\ UNCHANGED <<retries, retryDelay, op, tasks, ret, now, poll, createdUsers,
                   startConfig, health, db, race>>

\* teardownTest and teardownTestScenario return; the After hook ends.
AfterHookReturn ==
    /\ world.pc = "cleanupAll"
    /\ world.pending = {}
    /\ world' = [world EXCEPT !.pc = "done", !.hook = "ok"]
    /\ UNCHANGED <<retries, retryDelay, op, tasks, ret, results, now, poll, createdUsers,
                   startConfig, health, db, race>>

NextScenario ==
    \/ WorldConstructor
    \/ BeforeHook
    \/ OtherClientCreates
    \/ StepCreateUser
    \/ StepUserExists
    \/ StepTryCreateAnother
    \/ StepSomeUsersExist
    \/ StepDeleteUser
    \/ ScenarioEnds
    \/ AfterHook
    \/ DeleteSettles
    \/ CleanupCreatedUsersReturn
    \/ ListSettles
    \/ AfterHookReturn

SpecScenario == Init /\ [][NextScenario]_vars

\* Every request of the teardown settles (the requests have a timeout) and
\* cucumber runs the After hook of every scenario that ended.
LiveSpecScenario ==
    /\ SpecScenario
    /\ WF_vars(AfterHook)
    /\ WF_vars(DeleteSettles)
    /\ WF_vars(CleanupCreatedUsersReturn)
    /\ WF_vars(ListSettles)
    /\ WF_vars(AfterHookReturn)

NextTracker ==
    \/ WorldConstructor
    \/ BeforeHook
    \/ StepCreateUser
    \/ StepDeleteUser
    \/ StepUserExists
    \/ DirectCleanup
    \/ DeleteSettles
    \/ CleanupCreatedUsersReturn

\* The tracker alone: a World whose cleanupCreatedUsers is called at will.
SpecTracker == Init /\ [][NextTracker]_vars

-----------------------------------------------------------------------------
(* Claims about the scenario's tracker (SpecScenario, LiveSpecScenario, SpecTracker) *)

\* C11: the tracker is empty when the World is constructed, grows only while
\* the steps run, and is emptied only by the cleanup of the After hook; the
\* After hook of a scenario that ended, passed or failed, runs the teardown
\* to its end; afterwards the tracker is empty whatever the delete requests
\* were answered, the hook has not failed and the scenario keeps its result.
C11_TrackerDrained ==
    /\ [](world.pc = "constructed" => createdUsers = <<>>)
    /\ [](world.pc = "done" =>
              /\ createdUsers = <<>>
              /\ world.hook = "ok"
              /\ world.status \in {"PASSED", "FAILED"})
    /\ [][createdUsers' # createdUsers =>
              \/ world.pc = "steps" /\ \E id \in UserIds : createdUsers' = Append(createdUsers, Tracked(id))
              \/ world.pc = "cleanup" /\ world.caller = "after" /\ createdUsers' = <<>>]_vars
    /\ [][world.pc = "finished" /\ world'.pc # "finished" => world'.pc = "cleanup" /\ world'.status = world.status]_vars
    /\ (world.pc = "finished") ~> (world.pc = "done" /\ createdUsers = <<>>)

\* A failed scenario is torn down; the delete of a user it tracked failed
\* (the service still stores the user) and the tracker is empty all the same.
C11_Witness ==
    /\ world.pc = "done"
    /\ world.status = "FAILED"
    /\ world.hook = "ok"
    /\ createdUsers = <<>>
    /\ \E u \in world.users : u.id \in world.tracked /\ u.id \in world.deletes

\* C12: a call of cleanupCreatedUsers that follows another one, with no
\* addCreatedUser in between, issues no delete request and records no id as
\* deleted or failed.
C12_CleanupIdempotent ==
    world.runs = 2 =>
        /\ world.issued = {}
        /\ world.pending = {}
        /\ results = NoResults

\* The second call has returned; the first one had a tracked user to delete
\* and its delete failed (the service still stores the user).
C12_Witness ==
    /\ world.runs = 2
    /\ world.pc = "steps"
    /\ createdUsers = <<>>
    /\ \E u \in world.users : u.id \in world.tracked

\* C13: the delete requests of a scenario's teardown are for users that the
\* scenario's tracker recorded, and for no other user.
C13_DeletesOnlyTracked == world.deletes \subseteq world.tracked

\* C14: every user a step of the scenario created (status 201) is recorded
\* in the scenario's tracker.
C14_CreatedAreTracked == world.created \subseteq world.tracked

-----------------------------------------------------------------------------
(* SpecShared: invocations of executeWithRetry in flight on one builder,   *)
(* and withRetry called on that builder meanwhile                          *)

\* The invocations that can be in flight together.
SharedTasks == {0, 1}

\* What a request of these invocations can end with.
SharedOutcomes == {Ok200, Err404, Err500}

\* A call of executeWithRetry on the builder, alone or while another
\* invocation is in flight.
SharedCall ==
    /\ op \in {"idle", "shared"}
    /\ \E id \in SharedTasks :
          /\ op = "shared" => id \notin DOMAIN tasks
          /\ LET before == IF op = "shared" THEN DOMAIN tasks ELSE {}
             IN  /\ tasks' = [i \in before \cup {id} |->
                                 IF i = id THEN executeWithRetry(retries) ELSE tasks[i]]
                 /\ startConfig' =
                        [of |-> [i \in before \cup {id} |->
                                    IF i = id THEN [retries |-> retries, retryDelay |-> retryDelay]
                                    ELSE startConfig.of[i]],
                         changed |-> IF op = "shared" THEN startConfig.changed ELSE FALSE]
    /\ op' = "shared"
    /\ ret' = NoReturn
    /\ UNCHANGED <<retries, retryDelay, results, now, poll, createdUsers, world, health, db, race>>

\* withRetry(retries, retryDelay) on the builder while invocations are in
\* flight: it assigns this.retries and this.retryDelay.  One such call per
\* group of invocations is followed.
withRetryInFlight ==
    /\ op = "shared"
    /\ ~startConfig.changed
    /\ \E id \in DOMAIN tasks : ~Settled(tasks[id])
    /\ \E r \in RetryCounts, d \in RetryDelays :
          /\ retries' = r
          /\ retryDelay' = d
    /\ startConfig' = [startConfig EXCEPT !.changed = TRUE]
    /\ UNCHANGED <<op, tasks, ret, results, now, poll, createdUsers, world, health, db, race>>

SharedRequestSettles ==
    /\ op = "shared"
    /\ \E id \in DOMAIN tasks, o \in SharedOutcomes :
          /\ tasks[id].pc = "await"
          /\ tasks' = [tasks EXCEPT ![id] = executeWithRetrySettle(@, o, retries, retryDelay)]
    /\ UNCHANGED <<retries, retryDelay, op, ret, results, now, poll, createdUsers,
                   world, startConfig, health, db, race>>

SharedSleepElapses ==
    /\ op = "shared"
    /\ \E id \in DOMAIN tasks :
          /\ tasks[id].pc = "sleep"
          /\ tasks' = [tasks EXCEPT ![id] = executeWithRetryWake(@, retries)]
    /\ UNCHANGED <<retries, retryDelay, op, ret, results, now, poll, createdUsers,
                   world, startConfig, health, db, race>>

\* Every invocation has settled and its caller has resumed.
SharedReturn ==
    /\ op = "shared"
    /\ AllSettled
    /\ op' = "idle"
    /\ ret' = [NoReturn EXCEPT !.kind = "resolved", !.src = "shared"]
    /\ UNCHANGED <<retries, retryDelay, tasks, results, now, poll, createdUsers,
                   world, startConfig, health, db, race>>

NextShared ==
    \/ withRetry
    \/ SharedCall
    \/ withRetryInFlight
    \/ SharedRequestSettles
    \/ SharedSleepElapses
    \/ SharedReturn

SpecShared == Init /\ [][NextShared]_vars

-----------------------------------------------------------------------------
(* Claims about shared configuration (SpecShared) *)

\* An invocation that started under configuration c made no more attempts
\* than c allows, gave up on a retryable failure only after c.retries + 1
\* attempts, and slept c.retryDelay before every retry.
FollowsConfig(t, c) ==
    /\ t.calls <= (IF c.retries >= 0 THEN c.retries + 1 ELSE 0)
    /\ t.waited = t.delays * c.retryDelay
    /\ (Settled(t) /\ t.calls > 0 /\ t.hist[Len(t.hist)] = "retryable") => t.calls = c.retries + 1

\* C15: the attempts and the delays of every invocation follow the
\* configuration the builder had when the invocation started, whatever other
\* invocations do and whatever withRetry is called meanwhile.
C15_ConfigFixedAtStart ==
    \A id \in DOMAIN startConfig.of : FollowsConfig(tasks[id], startConfig.of[id])

\* The part of C15 that holds: invocations that run together, with no
\* withRetry in between, follow the configuration they started under.
C15_FixedWhileNotReconfigured ==
    ~startConfig.changed => C15_ConfigFixedAtStart

-----------------------------------------------------------------------------
(* The legacy ApiClient, which the compatibility adapter stands in for *)

\* ApiClient.handleError: the envelope of a failed call.
legacyHandleError(error) ==
    IF ~error.defined THEN Throws
    ELSE IF error.hasResponse
    THEN Returns(Envelope(error.response.status, error.response.data, error.response.headers))
    ELSE IF error.request
    THEN Returns(Envelope(0, ErrorPayload("Network Error", "No response received from server", OrElse(error.url, "unknown")), EmptyHeaders))
    ELSE Returns(Envelope(0, ErrorPayload("Request Error", OrElse(error.message, "Unknown error occurred"), OrElse(error.url, "unknown")), EmptyHeaders))

\* A method of ApiClient (getAllUsers, getUserById, createUser, ...):
\* try { return {status, data, headers} of the response } catch { handleError }.
legacyMethod(o) ==
    IF o.ok
    THEN Returns(Envelope(o.response.status, o.response.data, o.response.headers))
    ELSE legacyHandleError(o.error)

\* Two results agree in what a step reads of a failure: status, error label
\* and message.
SameFailure(a, b) ==
    /\ a.thrown = b.thrown
    /\ a.env.status = b.env.status
    /\ a.env.data.error = b.env.data.error
    /\ a.env.data.message = b.env.data.message

\* C16: for every outcome of the HTTP call behind it, a compatibility method
\* resolves with the status the legacy ApiClient method returns for that
\* outcome, and for a failed call also with the error label and message of
\* the legacy method and of BaseBuilder.handleError.
C16_CompatPreservesLegacy ==
    ret.src \in CompatMethods =>
        LET legacy == legacyMethod(ret.last)
        IN  /\ ret.kind = "resolved"
            /\ ~legacy.thrown
            /\ ret.env.status = legacy.env.status
            /\ ~ret.last.ok =>
                  /\ SameFailure(Returns(ret.env), legacy)
                  /\ SameFailure(Returns(ret.env), handleError(ret.last.error))

\* A compatibility method has answered a call that failed with a 500 whose
\* response carries no headers: status, label and message are the legacy
\* ones, the headers are not (converted to an empty map).
C16_Witness ==
    /\ ret.src \in CompatMethods
    /\ ret.last = Err500
    /\ ret.env.status = 500
    /\ ret.env.data.error = "Internal Server Error"
    /\ ret.env.headers # legacyMethod(ret.last).env.headers

-----------------------------------------------------------------------------
(* SpecHealth: TestHelperBuilder.waitForHealthy and the BeforeAll hook *)

\* waitForHealthy polls every 2000 ms (the clock of this specification
\* counts seconds).
HealthInterval == 2

\* The predicate of waitForHealthy catches its own errors: it resolves to
\* true (status 200 and 'UP') or to false.
HealthOutcomes == {[threw |-> FALSE, value |-> "true"], [threw |-> FALSE, value |-> ""]}

\* waitForHealthy(timeout) up to its first suspension.
waitForHealthyCall ==
    /\ op = "idle"
    /\ health.pc \in {"idle", "done"}
    /\ now <= MaxStart
    /\ op' = "health"
    /\ \E timeout \in Timeouts :
          poll' = waitForCondition(timeout, HealthInterval, "application to be healthy", now)
    /\ health' = [NoHealth EXCEPT !.pc = "polling"]
    /\ ret' = NoReturn
    /\ tasks' = <<>>
    /\ UNCHANGED <<retries, retryDelay, results, now, createdUsers, world, startConfig, db, race>>

\* GET /actuator/health of the predicate is over.
HealthProbeSettles ==
    /\ op = "health"
    /\ poll.pc = "await"
    /\ \E o \in HealthOutcomes, took \in 0 .. MaxCallTime :
          /\ now' = now + took
          /\ poll' = waitForConditionSettle(poll, o, took, now')
    /\ UNCHANGED <<retries, retryDelay, op, tasks, ret, results, createdUsers,
                   world, startConfig, health, db, race>>

HealthSleepElapses ==
    /\ op = "health"
    /\ poll.pc = "sleep"
    /\ \E late \in 0 .. MaxLate :
          /\ now' = now + sleep(poll.interval, late)
          /\ poll' = waitForConditionWake(poll, now', late)
    /\ UNCHANGED <<retries, retryDelay, op, tasks, ret, results, createdUsers,
                   world, startConfig, health, db, race>>

\* `const result = await this.waitForCondition(...)` is over: the throw of
\* waitForCondition passes through; else `result !== null ? result : false`.
waitForHealthyResult(p) ==
    IF p.pc # "returned" THEN "rejected"
    ELSE IF p.result # "null" THEN p.result ELSE "false"

waitForHealthyReturn ==
    /\ op = "health"
    /\ PollStopped
    /\ op' = "idle"
    /\ health' = [health EXCEPT !.pc = "returned", !.isReady = waitForHealthyResult(poll)]
    /\ ret' = [NoReturn EXCEPT !.kind = IF poll.pc = "returned" THEN "resolved" ELSE "rejected",
                               !.src = "waitForHealthy"]
    /\ UNCHANGED <<retries, retryDelay, tasks, results, now, poll, createdUsers,
                   world, startConfig, db, race>>

\* The BeforeAll hook after `await globalApiGateway.waitForHealthy(120000)`:
\* a rejection leaves the hook; `if (!isReady)` throws the hook's own error.
BeforeAllOutcome(isReady) ==
    IF isReady = "rejected" THEN "Timeout waiting for application to be healthy"
    ELSE IF isReady # "true" THEN "API is not ready"
    ELSE "ready"

BeforeAllResumes ==
    /\ health.pc = "returned"
    /\ health' = [health EXCEPT !.pc = "done", !.hook = BeforeAllOutcome(health.isReady)]
    /\ UNCHANGED <<retries, retryDelay, op, tasks, ret, results, now, poll, createdUsers,
                   world, startConfig, db, race>>

NextHealth ==
    \/ waitForHealthyCall
    \/ HealthProbeSettles
    \/ HealthSleepElapses
    \/ waitForHealthyReturn
    \/ BeforeAllResumes
    \/ Tick

SpecHealth == Init /\ [][NextHealth]_vars

-----------------------------------------------------------------------------
(* Claims about waitForHealthy (SpecHealth) *)

\* C17: when the polling ended by its timeout, waitForHealthy has resolved
\* to false and the BeforeAll hook has failed with its own 'API is not
\* ready' error.
C17_TimeoutResolvesFalse ==
    (health.pc \in {"returned", "done"} /\ poll.pc = "timeout") =>
        /\ health.isReady = "false"
        /\ health.pc = "done" => health.hook = "API is not ready"

\* What the code does instead: waitForHealthy resolves to true or rejects
\* with the poller's timeout error; it never resolves to false.
C17_NeverResolvesFalse ==
    health.pc \in {"returned", "done"} =>
        /\ health.isReady \in {"true", "rejected"}
        /\ health.isReady = "rejected" <=> poll.pc = "timeout"
        /\ health.hook # "API is not ready"

-----------------------------------------------------------------------------
(* SpecService: the Java service (UserController, UserService and          *)
(* ProfileValidationService), one request at a time                        *)

Emails == {"ann@example.com", "bob@example.com"}

\* The name and bio of a request: one without and one with a bio.
Profiles == {[name |-> "Ann", bio |-> ""], [name |-> "Bob", bio |-> "Likes tea"]}

\* The body of a create or update request (UserCreateRequest), and the
\* request without a body.
UserCreateRequest(name, email, bio) == [name |-> name, email |-> email, bio |-> bio]

NoRequest == UserCreateRequest("", "", "")

\* What the call of the profile-validation dependency ends with: a body with
\* valid = true or false, an empty body, a 4xx or 5xx status, no answer
\* within 5 seconds, or no connection.
DependencyOutcomes == {"valid", "invalid", "empty", "http4xx", "http5xx", "timeout", "transport"}

\* A signal of the reactive chain: a ProfileValidationResponse, an error, or
\* completion without a value.
Value(valid, message) == [kind |-> "value", valid |-> valid, message |-> message, exception |-> ""]

Error(exception, message) == [kind |-> "error", valid |-> FALSE, message |-> message, exception |-> exception]

Empty == [kind |-> "empty", valid |-> FALSE, message |-> <<>>, exception |-> ""]

\* retrieve().bodyToMono(ProfileValidationResponse.class).timeout(5 s)
bodyToMono(o) ==
    CASE o = "valid" -> Value(TRUE, <<"Profile is valid">>)
      [] o = "invalid" -> Value(FALSE, <<"Profile rejected">>)
      [] o = "empty" -> Empty
      [] o = "http4xx" -> Error("WebClientResponseException", <<"4xx">>)
      [] o = "http5xx" -> Error("WebClientResponseException", <<"5xx">>)
      [] o = "timeout" -> Error("TimeoutException", <<"Did not observe any item or terminal signal within 5000ms">>)
      [] o = "transport" -> Error("WebClientRequestException", <<"Connection refused">>)

handleWebClientError(ex) ==
    IF ex.message = <<"4xx">>
    THEN Value(FALSE, <<"Profile validation rejected: ">> \o ex.message)
    ELSE Error("ProfileValidationException", <<"Profile validation service error: ">> \o ex.message)

\* A fallback that lets the profile pass when the dependency cannot be reached.
handleGenericErrorDegraded(ex) == Value(TRUE, <<"Profile validation skipped">>)

handleGenericError(ex) ==
    Error("ProfileValidationException", <<"Profile validation service temporarily unavailable">>)

\* .onErrorResume(WebClientResponseException.class, this::handleWebClientError)
\* .onErrorResume(Exception.class, this::handleGenericError)
onErrorResume(signal) ==
    LET first == IF signal.kind = "error" /\ signal.exception = "WebClientResponseException"
                 THEN handleWebClientError(signal) ELSE signal
    IN  IF first.kind = "error" THEN handleGenericError(first) ELSE first

\* validateProfile: block() returns the value, returns null for an empty
\* chain (response.isValid() then throws) or throws the error; the catch
\* block wraps whatever was thrown in a ProfileValidationException.
validateProfile(o) ==
    LET signal == onErrorResume(bodyToMono(o))
    IN  CASE signal.kind = "value" -> signal
          [] signal.kind = "empty" ->
                Error("ProfileValidationException", <<"Profile validation failed: ", "NullPointerException">>)
          [] signal.kind = "error" ->
                Error("ProfileValidationException", <<"Profile validation failed: ">> \o signal.message)

\* What a method of UserService gives back: the repository afterwards, and
\* the exception it threw ("" for none) with its message; `dependency` is
\* the outcome of the validation call, "none" when the call was not made.
Outcome(users, nextId, id, exception, message, dependency) ==
    [users |-> users, nextId |-> nextId, id |-> id, exception |-> exception,
     message |-> message, dependency |-> dependency]

existsByEmail(users, email) == \E u \in users : u.email = email

existsById(users, id) == \E u \in users : u.id = id

findById(users, id) == CHOOSE u \in users : u.id = id

\* new User(name, email, bio) as the repository stores it under `id`.
User(id, name, email, bio) == [id |-> id, name |-> name, email |-> email, bio |-> bio]

\* new UserResponse(user): the body of an answer that carries a user.
UserResponse(user) == [id |-> user.id, name |-> user.name, email |-> user.email, bio |-> user.bio]

NoBody == [id |-> 0, name |-> "", email |-> "", bio |-> ""]

\* UserService.getUserById
getUserById(users, nextId, id) ==
    IF ~existsById(users, id)
    THEN Outcome(users, nextId, id, "UserNotFoundException", <<"User with id ", "{id}", " not found">>, "none")
    ELSE Outcome(users, nextId, id, "", <<>>, "none")

\* A createUser that saves the user and validates the profile afterwards.
createUserSavesFirst(users, nextId, name, email, bio, o) ==
    IF existsByEmail(users, email)
    THEN Outcome(users, nextId, 0, "EmailAlreadyExistsException", <<"Email ", email, " already exists">>, "none")
    ELSE LET saved == users \cup {User(nextId, name, email, bio)}
             v == validateProfile(o)
         IN  IF v.kind = "error"
             THEN Outcome(saved, nextId + 1, 0, v.exception, v.message, o)
             ELSE IF ~v.valid
             THEN Outcome(saved, nextId + 1, 0, "ProfileValidationException",
                          <<"Profile validation failed: ">> \o v.message, o)
             ELSE Outcome(saved, nextId + 1, nextId, "", <<>>, o)

\* A createUser that stores the user without the bio of the request.
createUserDropsBio(users, nextId, name, email, bio, o) ==
    IF existsByEmail(users, email)
    THEN Outcome(users, nextId, 0, "EmailAlreadyExistsException", <<"Email ", email, " already exists">>, "none")
    ELSE LET v == validateProfile(o)
         IN  IF v.kind = "error"
             THEN Outcome(users, nextId, 0, v.exception, v.message, o)
             ELSE IF ~v.valid
             THEN Outcome(users, nextId, 0, "ProfileValidationException",
                          <<"Profile validation failed: ">> \o v.message, o)
             ELSE Outcome(users \cup {User(nextId, name, email, "")},
                          nextId + 1, nextId, "", <<>>, o)

\* UserService.createUser
createUser(users, nextId, name, email, bio, o) ==
    IF existsByEmail(users, email)
    THEN Outcome(users, nextId, 0, "EmailAlreadyExistsException", <<"Email ", email, " already exists">>, "none")
    ELSE LET v == validateProfile(o)
         IN  IF v.kind = "error"
             THEN Outcome(users, nextId, 0, v.exception, v.message, o)
             ELSE IF ~v.valid
             THEN Outcome(users, nextId, 0, "ProfileValidationException",
                          <<"Profile validation failed: ">> \o v.message, o)
             ELSE Outcome(users \cup {User(nextId, name, email, bio)},
                          nextId + 1, nextId, "", <<>>, o)

\* An updateUser that does not look for the email among the other users.
updateUserNoDuplicateCheck(users, nextId, id, name, email, bio, o) ==
    IF ~existsById(users, id)
    THEN Outcome(users, nextId, id, "UserNotFoundException", <<"User with id ", "{id}", " not found">>, "none")
    ELSE LET existingUser == findById(users, id)
             v == validateProfile(o)
         IN  IF v.kind = "error"
             THEN Outcome(users, nextId, id, v.exception, v.message, o)
             ELSE IF ~v.valid
             THEN Outcome(users, nextId, id, "ProfileValidationException",
                          <<"Profile validation failed: ">> \o v.message, o)
             ELSE Outcome((users \ {existingUser}) \cup {User(id, name, email, bio)},
                          nextId, id, "", <<>>, o)

\* UserService.updateUser
updateUser(users, nextId, id, name, email, bio, o) ==
    IF ~existsById(users, id)
    THEN Outcome(users, nextId, id, "UserNotFoundException", <<"User with id ", "{id}", " not found">>, "none")
    ELSE LET existingUser == findById(users, id)
         IN  IF existingUser.email # email /\ existsByEmail(users, email)
             THEN Outcome(users, nextId, id, "EmailAlreadyExistsException",
                          <<"Email ", email, " already exists">>, "none")
             ELSE LET v == validateProfile(o)
                  IN  IF v.kind = "error"
                      THEN Outcome(users, nextId, id, v.exception, v.message, o)
                      ELSE IF ~v.valid
                      THEN Outcome(users, nextId, id, "ProfileValidationException",
                                   <<"Profile validation failed: ">> \o v.message, o)
                      ELSE Outcome((users \ {existingUser}) \cup {User(id, name, email, bio)},
                                   nextId, id, "", <<>>, o)

\* A deleteUser that answers without removing the user.
deleteUserKeepsUser(users, nextId, id) ==
    IF ~existsById(users, id)
    THEN Outcome(users, nextId, id, "UserNotFoundException", <<"User with id ", "{id}", " not found">>, "none")
    ELSE Outcome(users, nextId, id, "", <<>>, "none")

\* UserService.deleteUser
deleteUser(users, nextId, id) ==
    IF ~existsById(users, id)
    THEN Outcome(users, nextId, id, "UserNotFoundException", <<"User with id ", "{id}", " not found">>, "none")
    ELSE Outcome({u \in users : u.id # id}, nextId, id, "", <<>>, "none")

\* The status and error label the service answers an exception with (the
\* label of a failed profile validation is not specified: "").
exceptionStatus(exception) ==
    CASE exception = "UserNotFoundException" -> [status |-> 404, error |-> "Not Found"]
      [] exception = "EmailAlreadyExistsException" -> [status |-> 409, error |-> "Conflict"]
      [] exception = "ProfileValidationException" -> [status |-> 400, error |-> ""]

\* UserController: the status of the method for a call that returned, the
\* status of the exception otherwise.
Answer(method, request, success, r) ==
    LET e == exceptionStatus(r.exception)
    IN  [op |-> method, id |-> r.id, name |-> request.name, email |-> request.email, bio |-> request.bio,
         exception |-> r.exception, message |-> r.message,
         status |-> IF r.exception = "" THEN success ELSE e.status,
         error |-> IF r.exception = "" THEN "" ELSE e.error,
         dependency |-> r.dependency,
         body |-> IF r.exception = "" /\ method # "delete"
                  THEN UserResponse(findById(r.users, r.id))
                  ELSE NoBody]

Handled(method, request, success, r) ==
    db' = [users |-> r.users, nextId |-> r.nextId, before |-> db.users, last |-> Answer(method, request, success, r)]

\* GET /api/users/{id}
GetUserRequest ==
    /\ \E id \in UserIds :
          Handled("get", NoRequest, 200, getUserById(db.users, db.nextId, id))
    /\ UNCHANGED <<retries, retryDelay, op, tasks, ret, results, now, poll, createdUsers,
                   world, startConfig, health, race>>

\* POST /api/users
CreateUserRequest ==
    /\ db.nextId <= MaxUsers
    /\ \E profile \in Profiles, email \in Emails, o \in DependencyOutcomes :
          Handled("create", UserCreateRequest(profile.name, email, profile.bio), 201,
                  createUser(db.users, db.nextId, profile.name, email, profile.bio, o))
    /\ UNCHANGED <<retries, retryDelay, op, tasks, ret, results, now, poll, createdUsers,
                   world, startConfig, health, race>>

\* PUT /api/users/{id}
UpdateUserRequest ==
    /\ \E id \in UserIds, profile \in Profiles, email \in Emails, o \in DependencyOutcomes :
          Handled("update", UserCreateRequest(profile.name, email, profile.bio), 200,
                  updateUser(db.users, db.nextId, id, profile.name, email, profile.bio, o))
    /\ UNCHANGED <<retries, retryDelay, op, tasks, ret, results, now, poll, createdUsers,
                   world, startConfig, health, race>>

\* DELETE /api/users/{id}
DeleteUserRequest ==
    /\ \E id \in UserIds :
          Handled("delete", NoRequest, 204, deleteUser(db.users, db.nextId, id))
    /\ UNCHANGED <<retries, retryDelay, op, tasks, ret, results, now, poll, createdUsers,
                   world, startConfig, health, race>>

NextService ==
    \/ GetUserRequest
    \/ CreateUserRequest
    \/ UpdateUserRequest
    \/ DeleteUserRequest

SpecService == Init /\ [][NextService]_vars

-----------------------------------------------------------------------------
(* Claims about the service (SpecService) *)

Rejections == {"UserNotFoundException", "EmailAlreadyExistsException", "ProfileValidationException"}

\* C18: a create or update request that ended with an error (not found,
\* conflict, validation rejected, dependency failed) left the stored users
\* as they were; a create or update that changed them passed the duplicate
\* check and the validation call first.
C18_RejectedRequestWritesNothing ==
    db.last.op \in {"create", "update"} =>
        /\ db.last.exception # "" =>
              /\ db.last.exception \in Rejections
              /\ db.users = db.before
        /\ db.users # db.before =>
              /\ db.last.exception = ""
              /\ db.last.dependency = "valid"
              /\ \A u \in db.before : u.email = db.last.email => u.id = db.last.id

\* One create was accepted and a second one, with another email, was
\* rejected by the dependency: exactly one user is stored.
C18_Witness ==
    /\ db.last.op = "create"
    /\ db.last.exception = "ProfileValidationException"
    /\ db.last.dependency = "invalid"
    /\ Cardinality(db.users) = 1
    /\ ~existsByEmail(db.users, db.last.email)

\* The answer to the last request is the Conflict error and nothing was written.
Conflict ==
    /\ db.last.exception = "EmailAlreadyExistsException"
    /\ db.last.status = 409
    /\ db.last.error = "Conflict"
    /\ \E i \in 1 .. Len(db.last.message) : db.last.message[i] = " already exists"
    /\ db.users = db.before

\* C19: no two stored users have the same email (or id); a create with a
\* stored email, and an update that changes the email to one another user
\* holds, are answered with the Conflict error; an update that keeps the
\* user's own email is not a conflict.
C19_EmailsUnique ==
    /\ \A u, v \in db.users : (u.email = v.email \/ u.id = v.id) => u = v
    /\ (db.last.op = "create" /\ existsByEmail(db.before, db.last.email)) => Conflict
    /\ (db.last.op = "update" /\ existsById(db.before, db.last.id)) =>
          LET own == findById(db.before, db.last.id).email
          IN  /\ (own # db.last.email /\ existsByEmail(db.before, db.last.email)) => Conflict
              /\ own = db.last.email => db.last.exception # "EmailAlreadyExistsException"

\* Two users are stored and the update of one to the email of the other was
\* answered 409.
C19_Witness ==
    /\ db.last.op = "update"
    /\ db.last.status = 409
    /\ Cardinality(db.users) = 2
    /\ existsById(db.users, db.last.id)
    /\ findById(db.users, db.last.id).email # db.last.email

\* C20: a create or update succeeded, or wrote anything, only if the
\* dependency answered valid = true for it; every other end of the call
\* (valid = false, 4xx, 5xx, timeout, no connection, empty body) ended the
\* request with 400 and a 'Profile validation failed' message, nothing written.
C20_DependencyRequired ==
    db.last.op \in {"create", "update"} =>
        /\ db.last.exception = "" => db.last.dependency = "valid"
        /\ db.users # db.before => db.last.dependency = "valid"
        /\ db.last.dependency \in DependencyOutcomes \ {"valid"} =>
              /\ db.last.exception = "ProfileValidationException"
              /\ db.last.status = 400
              /\ db.last.message[1] = "Profile validation failed: "
              /\ db.users = db.before

\* The dependency answered an update with 5xx: the update was answered 400
\* and the user is stored as before.
C20_Witness ==
    /\ db.last.op = "update"
    /\ db.last.dependency = "http5xx"
    /\ db.last.status = 400
    /\ db.users = db.before
    /\ existsById(db.users, db.last.id)



\* The answer to the last request is the Not Found error.
NotFound ==
    /\ db.last.exception = "UserNotFoundException"
    /\ db.last.status = 404
    /\ db.last.error = "Not Found"

\* C21: the delete of a stored user is answered 204 and removes exactly that
\* user, and a GET of the same id that follows it is answered 404 Not Found;
\* the delete of an id that is not stored is answered 404 Not Found and
\* leaves the stored users as they were.
C21_DeleteThenNotFound ==
    /\ [](db.last.op = "delete" =>
            IF existsById(db.before, db.last.id)
            THEN /\ db.last.status = 204
                 /\ db.users = {u \in db.before : u.id # db.last.id}
                 /\ ~existsById(db.users, db.last.id)
            ELSE /\ NotFound
                 /\ db.users = db.before)
    /\ [][(/\ db.last.op = "delete"
           /\ db.last.status = 204
           /\ db'.last.op = "get"
           /\ db'.last.id = db.last.id)
          => (/\ db'.last.status = 404
              /\ db'.last.error = "Not Found"
              /\ db'.last.exception = "UserNotFoundException")]_vars

\* A GET was answered 404 for an id the service had handed out: the user
\* with that id was stored once and deleted since.
C21_Witness ==
    /\ db.last.op = "get"
    /\ db.last.status = 404
    /\ db.last.id < db.nextId
    /\ db.users # {}


\* C22: a create answered 201 returns a positive id and the name, email and
\* bio of the request, and a GET of that id that follows it (no update or
\* delete in between) is answered 200 with that id, name, email and bio.
C22_CreateThenFetch ==
    /\ []((db.last.op = "create" /\ db.last.status = 201) =>
            /\ db.last.id > 0
            /\ db.last.body = [id |-> db.last.id, name |-> db.last.name,
                               email |-> db.last.email, bio |-> db.last.bio])
    /\ [][(/\ db.last.op \in {"create", "get"}
           /\ db.last.status \in {200, 201}
           /\ db'.last.op = "get"
           /\ db'.last.id = db.last.id)
          => (/\ db'.last.status = 200
              /\ db'.last.body = db.last.body
              /\ db'.last.body.id > 0)]_vars

\* The second user was created with a bio and fetched by its id.
C22_Witness ==
    /\ db.last.op = "get"
    /\ db.last.status = 200
    /\ db.last.id = 2
    /\ db.last.body.bio # ""
    /\ db.last.body = UserResponse(findById(db.users, 2))


-----------------------------------------------------------------------------
(* Claims about the delays and the attempts of the executor (SpecExec) *)

\* C23: executeWithRetry sleeps retryDelay once before each retry and at no
\* other time: while an attempt is awaited and when the invocation is over
\* the number of sleeps is the number of attempts minus one, each sleep
\* lasted retryDelay, and a sleep follows only a retryable failure of an
\* attempt that was not the last permitted one.
C23_DelaysAreAttemptsMinusOne ==
    op = "exec" =>
        LET t == tasks[TheTask]
        IN  /\ t.waited = t.delays * retryDelay
            /\ t.pc \in {"await", "resolved", "rejected"} => t.delays = t.calls - 1
            /\ t.pc = "sleep" =>
                  /\ t.delays = t.calls
                  /\ t.hist[Len(t.hist)] = "retryable"
                  /\ t.calls <= retries

\* The same statement for the invocations that made at least one attempt.
C23_DelaysOnceAttempted ==
    (op = "exec" /\ tasks[TheTask].calls > 0) =>
        LET t == tasks[TheTask]
        IN  /\ t.waited = t.delays * retryDelay
            /\ t.pc \in {"await", "resolved", "rejected"} => t.delays = t.calls - 1
            /\ t.pc = "sleep" =>
                  /\ t.delays = t.calls
                  /\ t.hist[Len(t.hist)] = "retryable"
                  /\ t.calls <= retries

\* C25: every invocation of executeWithRetry that is over called the
\* operation at least once, whatever retry count the builder has, and its
\* envelope is built from the outcome of its last call.
C25_AtLeastOneAttempt ==
    (op = "exec" /\ Settled(tasks[TheTask])) =>
        LET t == tasks[TheTask]
        IN  /\ t.calls >= 1
            /\ Len(t.hist) >= 1
            /\ t.pc = "resolved"

\* With a retry count of zero or more the operation is called at least once.
C25_AtLeastOnceFromZero ==
    (op = "exec" /\ Settled(tasks[TheTask]) /\ retries >= 0) =>
        LET t == tasks[TheTask]
        IN  /\ t.calls >= 1
            /\ Len(t.hist) >= 1
            /\ t.pc = "resolved"


-----------------------------------------------------------------------------
(* Claims about the poller's deadline (SpecPoll) *)

\* C24: waitForCondition never cancels a call of the predicate: the step
\* that ends an awaited call leads to the return or to the sleep, never to
\* the timeout failure; the timeout failure is raised only by the loop test
\* (at the call, or when a sleep is over); and a truthy value is returned
\* whatever the time at which its call settled.
C24_NoCancellation ==
    /\ [][poll.pc = "await" => poll'.pc \in {"await", "sleep", "returned"}]_vars
    /\ [][(poll'.pc = "timeout" /\ poll' # poll) => (op = "idle" \/ poll.pc = "sleep")]_vars
    /\ [][(PredicateSettles /\ poll'.firstTruthy # "") =>
            /\ poll'.pc = "returned"
            /\ poll'.result = poll'.firstTruthy
            /\ poll'.endTime = now']_vars

\* The first call started before the deadline and its truthy value, which
\* came after the deadline, was returned.
C24_Witness ==
    /\ poll.pc = "returned"
    /\ poll.calls = 1
    /\ poll.timeout = 1
    /\ Elapsed > poll.timeout
    /\ poll.result = "v1"

-----------------------------------------------------------------------------
(* SpecCompat: the compatibility methods of a gateway with any retry       *)
(* configuration, with the calls of the generated client counted           *)

\* `await this.users.<method>(...)`: the one call of the generated client.
compatCall == [NewTask EXCEPT !.pc = "await", !.calls = 1]

\* A compatibility method that treats the failure as executeWithRetry does.
compatSettleThroughExecutor(t, m, o, r, d) ==
    LET s == executeWithRetrySettle(t, o, r, d)
    IN  IF Settled(s)
        THEN [s EXCEPT !.out = CompatResult(m, o),
                       !.pc = IF CompatResult(m, o).thrown THEN "rejected" ELSE "resolved"]
        ELSE s

\* The call of the generated client settles with outcome o: the try block
\* returns convertAxiosResponse, the catch block returns handleAxiosError.
\* The gateway's retries (r) and retryDelay (d) are not read.
compatSettle(t, m, o, r, d) ==
    LET h == CompatResult(m, o)
    IN  [t EXCEPT !.hist = Append(@, OutcomeClass(o)), !.last = o,
                  !.lastError = IF o.ok THEN @ ELSE o.error,
                  !.pc = IF h.thrown THEN "rejected" ELSE "resolved",
                  !.out = h]

CompatInvoke ==
    /\ op = "idle"
    /\ op' = "compat"
    /\ \E m \in CompatMethods : ret' = [NoReturn EXCEPT !.src = m]
    /\ tasks' = [i \in {TheTask} |-> compatCall]
    /\ UNCHANGED <<retries, retryDelay, results, now, poll, createdUsers, world, startConfig, health, db, race>>

CompatClientSettles ==
    /\ op = "compat"
    /\ tasks[TheTask].pc = "await"
    /\ \E o \in Outcomes :
          tasks' = [tasks EXCEPT ![TheTask] = compatSettle(@, ret.src, o, retries, retryDelay)]
    /\ UNCHANGED <<retries, retryDelay, op, ret, results, now, poll, createdUsers, world, startConfig, health, db, race>>

\* The promise of the compatibility method settles and its caller resumes.
CompatReturn ==
    /\ op = "compat"
    /\ Settled(tasks[TheTask])
    /\ op' = "idle"
    /\ ret' = ReturnOf(ret.src, tasks[TheTask].out, tasks[TheTask].last)
    /\ UNCHANGED <<retries, retryDelay, tasks, results, now, poll, createdUsers, world, startConfig, health, db, race>>

NextCompat ==
    \/ withRetry
    \/ CompatInvoke
    \/ CompatClientSettles
    \/ CompatReturn

SpecCompat == Init /\ [][NextCompat]_vars

\* C26: whatever retries and retryDelay the gateway has, an invocation of a
\* compatibility method calls the generated client exactly once and never
\* sleeps; once that call settled the method is over and its envelope is
\* the adapter's conversion of that one outcome, a 5xx answer or a lost
\* connection included.
C26_CompatCallsOnce ==
    tasks # <<>> =>
        LET t == tasks[TheTask]
        IN  /\ t.calls = 1
            /\ t.delays = 0
            /\ t.waited = 0
            /\ t.pc \in {"await", "resolved"}
            /\ Len(t.hist) <= 1
            /\ Len(t.hist) = 1 =>
                  /\ t.pc = "resolved"
                  /\ t.out = CompatResult(ret.src, t.last)
            /\ (op = "idle" /\ OutcomeClass(ret.last) = "retryable") =>
                  /\ ret.kind = "resolved"
                  /\ ret.env.status = (IF ret.last.error.hasResponse THEN ret.last.error.response.status ELSE 0)

\* A gateway with two retries: createUserCompat returned the 500 envelope
\* after one call of the client.
C26_Witness ==
    /\ op = "idle"
    /\ retries = 2
    /\ ret.src = "createUserCompat"
    /\ ret.last = Err500
    /\ ret.kind = "resolved"
    /\ ret.env.status = 500
    /\ tasks # <<>>
    /\ tasks[TheTask].calls = 1
    /\ tasks[TheTask].hist = <<"retryable">>


-----------------------------------------------------------------------------
(* SpecRace: UserService.createUser and updateUser on two threads; every   *)
(* call of the repository and the validation call is one step              *)

\* The thread leaves the method: by its return (exception "") or by a throw.
raceDone(q, exception, persisted, clash) ==
    [q EXCEPT !.pc = "done", !.exception = exception, !.persisted = persisted, !.clash = clash]

\* updateUser: userRepository.findById(id).orElseThrow(...)
raceFind(users, q) ==
    IF ~existsById(users, q.id)
    THEN raceDone(q, "UserNotFoundException", FALSE, FALSE)
    ELSE [q EXCEPT !.pc = "check", !.own = findById(users, q.id).email]

\* createUser: if (existsByEmail) throw; updateUser: if (the email differs
\* from the loaded user's && existsByEmail) throw.
raceCheck(users, q) ==
    IF (q.method = "create" \/ q.own # q.email) /\ existsByEmail(users, q.email)
    THEN raceDone(q, "EmailAlreadyExistsException", FALSE, TRUE)
    ELSE [q EXCEPT !.pc = "validate"]

\* profileValidationService.validateProfile and the isValid test.
raceValidate(q, o) ==
    LET v == validateProfile(o)
    IN  IF v.kind = "error" \/ ~v.valid
        THEN raceDone(q, "ProfileValidationException", FALSE, FALSE)
        ELSE [q EXCEPT !.pc = "save"]

\* Another user holds the email the thread is about to save.
raceClash(users, q) == \E u \in users : u.email = q.email /\ u.id # q.id

\* A repository whose save rejects the duplicate as the exists-check does.
raceSaveRechecks(users, nextId, schema, q) ==
    IF raceClash(users, q)
    THEN [users |-> users, nextId |-> nextId, q |-> raceDone(q, "EmailAlreadyExistsException", FALSE, TRUE)]
    ELSE IF q.method = "create"
    THEN [users |-> users \cup {User(nextId, q.name, q.email, q.bio)}, nextId |-> nextId + 1,
          q |-> raceDone(q, "", TRUE, FALSE)]
    ELSE [users |-> {u \in users : u.id # q.id} \cup {User(q.id, q.name, q.email, q.bio)},
          nextId |-> nextId, q |-> raceDone(q, "", TRUE, FALSE)]

\* userRepository.save(user): with a unique index on email the save of a
\* duplicate throws DataIntegrityViolationException, which UserService does
\* not catch; without one the duplicate is stored.
raceSave(users, nextId, schema, q) ==
    IF raceClash(users, q) /\ schema = "unique"
    THEN [users |-> users, nextId |-> nextId,
          q |-> raceDone(q, "DataIntegrityViolationException", FALSE, TRUE)]
    ELSE IF q.method = "create"
    THEN [users |-> users \cup {User(nextId, q.name, q.email, q.bio)}, nextId |-> nextId + 1,
          q |-> raceDone(q, "", TRUE, raceClash(users, q))]
    ELSE [users |-> {u \in users : u.id # q.id} \cup {User(q.id, q.name, q.email, q.bio)},
          nextId |-> nextId, q |-> raceDone(q, "", TRUE, raceClash(users, q))]

\* The name and bio of the requests that race (they play no part in it).
RaceProfile == CHOOSE profile \in Profiles : profile.bio = ""

\* The creates that were not saved yet.
RaceCreating == {h \in Handlers : race.slots[h].method = "create" /\ race.slots[h].pc \notin {"idle", "done"}}

\* A request reaches a thread that handles none.
RaceArrive ==
    /\ \E h \in Handlers, method \in {"create", "update"}, id \in UserIds, email \in Emails :
          /\ race.slots[h].pc \in {"idle", "done"}
          /\ method = "create" => (id = 1 /\ db.nextId + Cardinality(RaceCreating) <= MaxUsers)
          /\ race' = [race EXCEPT !.slots[h] =
                        [NoHandler EXCEPT !.pc = IF method = "create" THEN "check" ELSE "find",
                                          !.method = method,
                                          !.id = IF method = "create" THEN 0 ELSE id,
                                          !.name = RaceProfile.name, !.email = email,
                                          !.bio = RaceProfile.bio]]
    /\ UNCHANGED <<retries, retryDelay, op, tasks, ret, results, now, poll, createdUsers,
                   world, startConfig, health, db>>

RaceFind ==
    /\ \E h \in Handlers :
          /\ race.slots[h].pc = "find"
          /\ race' = [race EXCEPT !.slots[h] = raceFind(db.users, @)]
    /\ UNCHANGED <<retries, retryDelay, op, tasks, ret, results, now, poll, createdUsers,
                   world, startConfig, health, db>>

RaceCheck ==
    /\ \E h \in Handlers :
          /\ race.slots[h].pc = "check"
          /\ race' = [race EXCEPT !.slots[h] = raceCheck(db.users, @)]
    /\ UNCHANGED <<retries, retryDelay, op, tasks, ret, results, now, poll, createdUsers,
                   world, startConfig, health, db>>

RaceValidate ==
    /\ \E h \in Handlers, o \in DependencyOutcomes :
          /\ race.slots[h].pc = "validate"
          /\ race' = [race EXCEPT !.slots[h] = raceValidate(@, o)]
    /\ UNCHANGED <<retries, retryDelay, op, tasks, ret, results, now, poll, createdUsers,
                   world, startConfig, health, db>>

\* The save; the first save that meets a duplicate shows which schema the
\* build has.
RaceSave ==
    /\ \E h \in Handlers, schema \in {"unique", "plain"} :
          /\ race.slots[h].pc = "save"
          /\ IF raceClash(db.users, race.slots[h]) /\ race.schema = "unknown"
             THEN TRUE
             ELSE schema = (IF race.schema = "unknown" THEN "unique" ELSE race.schema)
          /\ LET known == raceClash(db.users, race.slots[h]) \/ race.schema # "unknown"
                 s == raceSave(db.users, db.nextId, schema, race.slots[h])
             IN  /\ db' = [db EXCEPT !.users = s.users, !.nextId = s.nextId]
                 /\ race' = [schema |-> IF known THEN schema ELSE "unknown",
                             slots |-> [race.slots EXCEPT ![h] = s.q]]
    /\ UNCHANGED <<retries, retryDelay, op, tasks, ret, results, now, poll, createdUsers,
                   world, startConfig, health>>

NextRace ==
    \/ RaceArrive
    \/ RaceFind
    \/ RaceCheck
    \/ RaceValidate
    \/ RaceSave

SpecRace == Init /\ [][NextRace]_vars

\* C28: with two requests handled at the same time no two stored users have
\* the same email, and a request that found its email held by another user,
\* at its exists-check or at its save, wrote nothing and ended with the
\* exception of the Conflict error.
C28_UniqueUnderConcurrency ==
    /\ \A u, v \in db.users : u.email = v.email => u = v
    /\ \A h \in Handlers :
          (race.slots[h].pc = "done" /\ race.slots[h].clash) =>
              /\ ~race.slots[h].persisted
              /\ race.slots[h].exception = "EmailAlreadyExistsException"

\* Every request that was rejected with the Conflict error found its email
\* stored at its exists-check and wrote nothing.
C28_ConflictWritesNothing ==
    \A h \in Handlers :
        race.slots[h].exception = "EmailAlreadyExistsException" =>
            /\ race.slots[h].pc = "done"
            /\ race.slots[h].clash
            /\ ~race.slots[h].persisted


-----------------------------------------------------------------------------
(* Claims about the entries of the tracker (SpecScenario) *)

\* The service stores a user with this id.
Stored(w, id) == \E u \in w.users : u.id = id

\* C29: the step 'I delete the user' leaves the tracker as it is; the
\* teardown issues one delete request for every tracked user, whether the
\* service still stores it or not; the delete of a user that is not stored
\* any more is counted under failed and raises nothing; and when
\* cleanupCreatedUsers is over every request was counted once and the
\* tracker is empty.
C29_DeletedUserStillCleaned ==
    /\ [][(world.pc = "steps" /\ world'.pc = "steps" /\ world'.users # world.users
           /\ world'.users \subseteq world.users)
          => createdUsers' = createdUsers]_vars
    /\ [][(world.pc = "finished" /\ world'.pc = "cleanup") =>
            /\ world'.issued = {createdUsers[i].id : i \in 1 .. Len(createdUsers)}
            /\ world'.pending = world'.issued]_vars
    /\ [][(world.pc = "cleanup" /\ world'.pending # world.pending) =>
            \E id \in world.pending :
                /\ world'.pending = world.pending \ {id}
                /\ ~Stored(world, id) =>
                      /\ results'.failed = Append(results.failed, id)
                      /\ results'.deleted = results.deleted
                      /\ world'.pc = "cleanup"
                      /\ world'.hook = world.hook
                      /\ world'.status = world.status]_vars
    /\ [](world.pc = "listing" =>
            /\ createdUsers = <<>>
            /\ world.hook = "none"
            /\ \A id \in world.issued : Count(results.deleted, id) + Count(results.failed, id) = 1
            /\ \A id \in UserIds \ world.issued : Count(results.deleted, id) + Count(results.failed, id) = 0)

\* The scenario deleted its user in a step; the teardown asked for the
\* delete again, counted it under failed and emptied the tracker.
C29_Witness ==
    /\ world.pc = "listing"
    /\ world.status = "PASSED"
    /\ world.currentUser # 0
    /\ world.currentUser \in world.tracked
    /\ world.currentUser \in world.issued
    /\ ~Stored(world, world.currentUser)
    /\ results.failed = <<world.currentUser>>
    /\ results.deleted = <<>>
    /\ createdUsers = <<>>

\* Nothing was tracked.
NoUser == [id |-> 0, shouldCleanup |-> FALSE]

\* getLastCreatedUser: this.createdUsers[this.createdUsers.length - 1]
getLastCreatedUser(users) == IF Len(users) = 0 THEN NoUser ELSE users[Len(users)]

\* C30: every entry of the tracker has shouldCleanup = true and the id of a
\* user that a create of this scenario answered with 201 made; the entries
\* are in the order in which they were added; the tracker changes during the
\* steps only by one entry added at its end, in a step whose create was
\* answered 201, and getLastCreatedUser then returns that entry.
C30_TrackerEntries ==
    /\ [](\A i \in 1 .. Len(createdUsers) :
              /\ createdUsers[i].shouldCleanup
              /\ createdUsers[i].id \in world.created
              /\ createdUsers[i].id \in world.tracked
              /\ \A j \in 1 .. Len(createdUsers) : i < j => createdUsers[i].id < createdUsers[j].id)
    /\ [][(world.pc = "steps" /\ createdUsers' # createdUsers) =>
            /\ createdUsers' = Append(createdUsers, Tracked(world.nextId))
            /\ world'.created = world.created \cup {world.nextId}
            /\ world.nextId \notin world.created
            /\ Stored(world', world.nextId)
            /\ getLastCreatedUser(createdUsers') = Tracked(world.nextId)]_vars
    /\ [][(world.pc = "steps" /\ world'.created = world.created) =>
            createdUsers' = createdUsers]_vars

\* Two users are tracked, in the order of their creation, after a create
\* that was not answered 201 failed the scenario.
C30_Witness ==
    /\ Len(createdUsers) = 2
    /\ getLastCreatedUser(createdUsers) = Tracked(2)
    /\ createdUsers[1] = Tracked(1)
    /\ world.pc = "finished"
    /\ world.status = "FAILED"
    /\ world.created = {1, 2}

=============================================================================
